---- MODULE Spec2Model ----
(***************************************************************************)
(* Model of the AL language-server proxy (al_lsp_wrapper.py): the main     *)
(* loop, ALLSPWrapper.process_request and its handlers, the two backend    *)
(* connections (ALLSPWrapper.send_request / read_message on the primary    *)
(* backend, CallHierarchyServer.send_request / read_message on the         *)
(* al-call-hierarchy bridge) and the backends as black-box emitters of     *)
(* frames on their stdout pipes.                                           *)
(*                                                                         *)
(* The proxy is one sequential thread; pc is its position.  A backend      *)
(* round trip is two or more steps: the step that writes the request and   *)
(* enters the read loop, and one step per frame read from the pipe.        *)
(***************************************************************************)
EXTENDS Integers, Sequences, FiniteSets, TLC

\* ------------------------------------------------------------------ bounds
MaxClientMsgs == 2      \* client messages read in one session
MaxFaults == 1          \* out-of-band events of the backends in one session:
                        \* a notification, an undecodable frame, a process
                        \* exit, an answer that arrives after the timeout
MaxPolls == 2           \* readiness polls that fit in one _wait_for_project_load

\* ------------------------------------------------------------- vocabulary
NoId == 0               \* a message without an "id" member (ids are >= 1)
NoUri == "-"
NoRoot == ""            \* None or the empty string where a path is expected

DocMethods == {"textDocument/hover", "textDocument/documentSymbol",
               "textDocument/references"}
CallHierarchyMethods == {"textDocument/prepareCallHierarchy",
                         "callHierarchy/incomingCalls",
                         "callHierarchy/outgoingCalls"}
OtherMethods == {"textDocument/completion"}

\* The file system the session runs on: directory "W" holds project "A"
\* (W/A/app.json) with the documents A/a.al and A/gone.al (the latter cannot
\* be read), x.al lies outside every project, directory "E" holds no
\* app.json at any depth, and directory "B", outside "W", holds project
\* "B" with the document B/b.al.
Uris == {"A/a.al", "A/gone.al", "x.al"}
WorkspaceRoots == {"W", "E", NoRoot}
ProjectRoots == {"A", "B"}

\* The documents of the sessions that go from one project to another.
ProjectDocuments == {"A/a.al", "B/b.al"}

ManifestUri(root) == root \o "/app.json"

\* A file system, as far as the project search goes: parent is
\* pathlib's Path.parent (lexical: defined on every path name, the root is
\* its own parent), dirs the directories that exist, manifests those of them
\* that hold an app.json.  FileSystem is the one the sessions run on.
FileSystem ==
    [parent |-> ("/" :> "/") @@ ("W" :> "/") @@ ("E" :> "/") @@ ("A" :> "W")
                @@ ("B" :> "/") @@ ("B/b.al" :> "B") @@ ("B/app.json" :> "B")
                @@ ("x.al" :> "/") @@ ("/app.json" :> "/")
                @@ ("A/a.al" :> "A") @@ ("A/gone.al" :> "A")
                @@ ("A/app.json" :> "A") @@ ("E/app.json" :> "E"),
     dirs |-> {"/", "W", "E", "A", "B"},
     manifests |-> {"A", "B"}]

\* Variant of find_project_for_file that looks at the file's directory only.
find_project_for_file_Parent(fs, file_path) ==
    IF fs.parent[file_path] \in fs.manifests THEN fs.parent[file_path] ELSE NoRoot

\* find_project_for_file: the walk up from the file's directory to the
\* first directory holding app.json; the filesystem root itself is not
\* looked at.
find_project_for_file(fs, file_path) ==
    LET RECURSIVE up(_)
        up(current) ==
            IF current = fs.parent[current] THEN NoRoot
            ELSE IF current \in fs.manifests THEN current
            ELSE up(fs.parent[current])
    IN up(fs.parent[file_path])

\* find_al_project's default max_depth
max_depth == 5

\* Variant of find_al_project that looks at start_path alone.
find_al_project_Here(fs, start_path) ==
    IF start_path \in fs.manifests THEN {start_path} ELSE {NoRoot}

\* find_al_project: start_path itself, then for depth = 1..max_depth the
\* matches of "*/.../app.json"; the parent of the first match is returned.
\* The order of the matches of one glob is the directory order of the file
\* system, so every match of the first successful depth is a possible
\* return value: the operator gives the set of them ({NoRoot} for None).
\* level is the set of directories depth levels below start_path.
find_al_project(fs, start_path) ==
    LET below(ds) == {d \in fs.dirs : d # fs.parent[d] /\ fs.parent[d] \in ds}
        RECURSIVE search(_, _)
        search(depth, level) ==
            IF depth > max_depth THEN {NoRoot}
            ELSE LET matches == level \cap fs.manifests
                 IN IF matches # {} THEN matches
                    ELSE search(depth + 1, below(level))
    IN IF start_path \notin fs.dirs THEN {NoRoot}
       ELSE IF start_path \in fs.manifests THEN {start_path}
       ELSE search(1, below({start_path}))

\* open(file_path) succeeds: "A/gone.al" names a file that does not exist.
Readable(uri) == uri \in {"A/a.al", "x.al", "A/app.json", "B/b.al", "B/app.json"}

\* ------------------------------------------------------------- messages
\* One record shape for every JSON-RPC message and for the Python values
\* None and {} that stand in for one.
\*   kind: "resp" (a response), "notif" (method, no id), "bad" (a frame
\*         read_message cannot decode), "none" (None), "dict" ({}).
\*   tag : "result" / "error" / "none" - which member the response carries.
\*   val : the JSON type of result: "null", "true", "false", "emptylist",
\*         "list" (non-empty), "emptyobj", "obj" (non-empty).
\*   code: the error code; data: which sample payload the result carries.
Msg(kind, id, tag, val, code, data) ==
    [kind |-> kind, id |-> id, tag |-> tag, val |-> val, code |-> code,
     data |-> data]
None == Msg("none", NoId, "none", "none", 0, 0)
EmptyDict == Msg("dict", NoId, "none", "none", 0, 0)
Result(id, val, data) == Msg("resp", id, "result", val, 0, data)
Error(id, code) == Msg("resp", id, "error", "none", code, 0)
Notification == Msg("notif", NoId, "none", "none", 0, 0)
BadFrame == Msg("bad", NoId, "none", "none", 0, 0)

\* A location taken from an outline node (which member, of which node), and
\* the absence of one.
NoLocation == [member |-> "none", node |-> 0, uri |-> NoUri]

\* Python truthiness of a dict-or-None value: None and {} are falsy.
Truthy(m) == m.kind \notin {"none", "dict"}

\* Variant of HasResult that takes every response for one with a result.
HasResult_AnyResponse(m) == Truthy(m)

\* 'response and "result" in response'
HasResult(m) == Truthy(m) /\ m.tag = "result"

Answer(tag, val, data) == [tag |-> tag, val |-> val, data |-> data]

\* What the primary backend may answer to a request, by method: the result
\* values the handlers tell apart.
AnswersFor(method) ==
    CASE method = "initialize" ->
           {Answer("result", "obj", 0), Answer("error", "none", 0)}
      [] method = "al/setActiveWorkspace" ->
           {Answer("result", "obj", 0)}
      [] method = "al/hasProjectClosureLoadedRequest" ->
           {Answer("result", "true", 0), Answer("result", "false", 0)}
      [] method = "al/gotodefinition" ->
           {Answer("result", "null", 0), Answer("result", "emptylist", 0),
            Answer("result", "list", 0), Answer("error", "none", 0)}
      [] method = "textDocument/hover" ->
           {Answer("result", "null", 0), Answer("result", "obj", 1),
            Answer("result", "obj", 2)}
      [] method = "textDocument/documentSymbol" ->
           {Answer("result", "emptylist", 0), Answer("result", "list", 1),
            Answer("result", "list", 2)}
      [] method \in {"workspace/symbol", "al/symbolSearch"} ->
           {Answer("result", "null", 0), Answer("result", "emptylist", 0),
            Answer("result", "list", 0), Answer("error", "none", 0)}
      [] OTHER ->
           {Answer("result", "null", 0), Answer("result", "obj", 0),
            Answer("error", "none", 0)}

\* What the al-call-hierarchy process may answer.  For initialize, data = 1
\* is a capabilities object with callHierarchyProvider, data = 0 one without.
BridgeAnswersFor(method) ==
    CASE method = "initialize" ->
           {Answer("result", "obj", 1), Answer("result", "obj", 0),
            Answer("error", "none", 0)}
      [] method = "shutdown" ->
           {Answer("result", "null", 0)}
      [] OTHER ->
           {Answer("result", "list", 0), Answer("result", "null", 0),
            Answer("error", "none", 0)}

\* The response a backend writes for answer a to request id; its errors
\* carry the internal-error code -32603.
AnswerMsg(id, a) ==
    IF a.tag = "result" THEN Result(id, a.val, a.data)
                        ELSE Error(id, -32603)

\* ---------------------------------------------------- workspace/symbol query
\* A query is a sequence of characters.
\* Variant of IsBlankQuery without the strip(): only the empty query is blank.
IsBlankQuery_NoStrip(q) == q = <<>>

\* 'not query or not query.strip()'
IsBlankQuery(q) == \A i \in 1..Len(q) : q[i] = " "

EndsWithAl(s) ==
    /\ Len(s) >= 3
    /\ SubSeq(s, Len(s) - 2, Len(s)) = <<".", "a", "l">>

\* "'\\' in query or '/' in query or query.endswith('.al')"
LooksLikePath(q) ==
    \/ \E i \in 1..Len(q) : q[i] \in {"\\", "/"}
    \/ EndsWithAl(q)

\* query.replace('\\', '/').split('/')[-1]
LastSegment(q) ==
    LET seps == {i \in 1..Len(q) : q[i] \in {"\\", "/"}}
        last == IF seps = {} THEN 0 ELSE CHOOSE i \in seps : \A j \in seps : j <= i
    IN SubSeq(q, last + 1, Len(q))

StripAl(s) == IF EndsWithAl(s) THEN SubSeq(s, 1, Len(s) - 3) ELSE s

\* Variant of NamePart that keeps the whole filename.
NamePart_Whole(filename) == filename

\* filename.split(' ', 2): with two or more spaces the third part is the text
\* after the second space, otherwise the whole filename is kept.
NamePart(filename) ==
    LET spaces == {i \in 1..Len(filename) : filename[i] = " "}
        first == CHOOSE i \in spaces : \A j \in spaces : i <= j
        later == spaces \ {first}
        second == CHOOSE i \in later : \A j \in later : i <= j
    IN IF Cardinality(spaces) >= 2
       THEN SubSeq(filename, second + 1, Len(filename))
       ELSE filename

\* handle_workspace_symbol: the query actually searched for.
RewriteQuery(q) ==
    IF LooksLikePath(q) THEN NamePart(StripAl(LastSegment(q))) ELSE q

\* The queries a client sends in the proxy sessions.
Queries == {<<>>, <<" ">>, <<"a">>, <<"/">>}

\* ---------------------------------------------------------------- state
VARIABLES
    pc,                    \* position of the proxy thread
    cur,                   \* main: request (the client message being handled)
    nRead,                 \* client messages read so far
    response,              \* the handler's response / main: response
    written,               \* messages written to the client since the last read
    request_id,            \* ALLSPWrapper.request_id
    initialized,           \* ALLSPWrapper.initialized
    root_path,             \* ALLSPWrapper.root_path
    workspace_root,        \* ALLSPWrapper.workspace_root
    opened_files,          \* ALLSPWrapper.opened_files
    initialized_projects,  \* ALLSPWrapper.initialized_projects
    call_hierarchy_server, \* ALLSPWrapper.call_hierarchy_server and its fields
    pProc,                 \* primary backend process: "alive" / "exited"
    pInbox,                \* requests the primary received and has not answered
    bProc,                 \* bridge process: "none" / "alive" / "exited"
    bInbox,                \* requests the bridge received and has not answered
    orphans,               \* bridge processes still running whose handle the
                           \* proxy no longer holds
    faults,                \* out-of-band backend events so far
    system,                \* platform.system()
    ret,                   \* value returned by the last send_request
    retFor,                \* identifier that send_request had allocated
    cont,                  \* where the caller continues after send_request
    polls,                 \* _wait_for_project_load: checks made in this wait
    query,                 \* handle_workspace_symbol: query
    project_root,          \* value returned by the last _ensure_project_initialized
    symbol_name,           \* _try_document_symbol_fallback: symbol_name
    fallback_location,     \* handle_definition: fallback_location
    sent,                  \* messages sent to the backends since the last read
    notified,              \* notifications passed to handle_notification so far
    activations,           \* per project: initialization sequences sent by
                           \* _ensure_project_initialized so far
    late,                  \* identifiers of the bridge requests whose read
                           \* timed out and whose answer is still to come
    didOpens,                 \* per URI: textDocument/didOpen notifications sent
                           \* to the primary backend so far
    active_workspace,      \* the root named by the last al/setActiveWorkspace
                           \* request written to the primary backend
    initialized_sent,      \* initialized notifications written to the primary
                           \* backend so far
    stream,                \* per channel: the bytes written and not yet read
    wrote,                 \* per channel: the messages written so far
    got,                   \* per channel: what the reads returned so far
    unit,                  \* the function applied on its own, and its input
    out,                   \* what that function returned
    errPipe,               \* per child: chunks waiting in its stderr pipe
    blocked,               \* per child: it is blocked in a write to stderr
    waitingFor             \* the child whose response the proxy is reading

loopVars == <<cur, nRead, written>>
wrapperVars == <<initialized, root_path, workspace_root, opened_files,
                 initialized_projects>>
primaryVars == <<pProc>>
bridgeVars == <<call_hierarchy_server, bProc, bInbox, orphans>>
callVars == <<ret, retFor, cont>>
localVars == <<polls, query, project_root, symbol_name, fallback_location>>
logVars == <<notified, activations, late, didOpens, active_workspace,
            initialized_sent>>
\* The proxy session: everything but the platform.
sessionVars == <<pc, loopVars, response, request_id, wrapperVars, primaryVars,
                 pInbox, bridgeVars, faults, callVars, localVars, sent, logVars>>
\* What no step of a proxy session changes: the platform, and the state
\* of the runs that look at the framing or at one function alone.
stderrVars == <<errPipe, blocked, waitingFor>>
fixedVars == <<system, stream, wrote, got, unit, out, stderrVars>>
vars == <<sessionVars, fixedVars>>

Request(method, uri, hasQuery, q) ==
    [method |-> method, id |-> NoId, uri |-> uri, hasQuery |-> hasQuery,
     query |-> q, closing |-> "-"]
NoRequest == Request("-", NoUri, FALSE, <<>>)

\* The messages a client may send (the identifier is added on reading).  For
\* initialize, uri is params.rootPath.
ClientMessages ==
    {Request(m, u, FALSE, <<>>) : m \in DocMethods \cup {"textDocument/definition"},
                                  u \in Uris}
    \cup {Request("workspace/symbol", NoUri, TRUE, q) : q \in Queries}
    \cup {Request("workspace/symbol", NoUri, FALSE, <<>>)}
    \cup {Request("initialize", w, FALSE, <<>>) : w \in WorkspaceRoots}
    \cup {Request(m, NoUri, FALSE, <<>>) :
            m \in {"initialized"} \cup CallHierarchyMethods \cup OtherMethods}

\* CallHierarchyServer(): request_id = 0, initialized = False.
NoServer == [present |-> FALSE, request_id |-> 0, initialized |-> FALSE]
NewServer == [present |-> TRUE, request_id |-> 0, initialized |-> FALSE]

\* The three channels: the client's stdio, the primary backend's pipes and
\* the bridge's pipes.
Channels == {"client", "primary", "bridge"}

\* The child processes.
Children == {"primary", "bridge"}

\* No function is being looked at on its own.
NoUnit == [fn |-> "-"]

\* main after "wrapper = ALLSPWrapper(); wrapper.start(executable)".
SessionInit ==
    /\ pc = "main"
    /\ cur = NoRequest
    /\ nRead = 0
    /\ response = None
    /\ written = <<>>
    /\ request_id = 0
    /\ initialized = FALSE
    /\ root_path = NoRoot
    /\ workspace_root = NoRoot
    /\ opened_files = {}
    /\ initialized_projects = {}
    /\ call_hierarchy_server = NoServer
    /\ pProc = "alive"
    /\ pInbox = {}
    /\ bProc = "none"
    /\ bInbox = {}
    /\ orphans = 0
    /\ faults = 0
    /\ system \in {"Linux", "Windows"}
    /\ ret = None
    /\ retFor = 0
    /\ cont = "-"
    /\ polls = 0
    /\ query = <<>>
    /\ project_root = NoRoot
    /\ symbol_name = <<>>
    /\ fallback_location = NoLocation
    /\ sent = <<>>
    /\ notified = 0
    /\ activations = [r \in ProjectRoots |-> 0]
    /\ late = {}
    /\ didOpens = [u \in Uris \cup ProjectDocuments
                       \cup {ManifestUri(r) : r \in ProjectRoots} |-> 0]
    /\ active_workspace = NoRoot
    /\ initialized_sent = 0

\* The session has started; nothing has been written on any channel and no
\* function is being looked at on its own.
Init ==
    /\ SessionInit
    /\ stream = [c \in Channels |-> <<>>]
    /\ wrote = [c \in Channels |-> <<>>]
    /\ got = [c \in Channels |-> <<>>]
    /\ unit = NoUnit
    /\ out = NoUnit
    /\ errPipe = [c \in Children |-> 0]
    /\ blocked = [c \in Children |-> FALSE]
    /\ waitingFor = "none"

\* ---------------------------------------------------------------- framing
\* The three channels carry the same framing: "Content-Length: <n>", an
\* empty line, then n bytes of JSON.  A text is a sequence of characters, a
\* stream a sequence of bytes.  An ASCII character is one byte, written as
\* the character itself; "é" stands for the characters outside ASCII and is
\* the two bytes "xC3" "xA9".  "Content-Length" is one token that stands
\* for the fourteen characters of the header name.
MaxFrames == 2          \* messages written on the channels in one run

Digits == <<"0", "1", "2", "3", "4", "5", "6", "7", "8", "9">>

\* str(n) of a natural number
RECURSIVE Decimal(_)
Decimal(n) ==
    IF n < 10 THEN <<Digits[n + 1]>>
    ELSE Decimal(n \div 10) \o <<Digits[(n % 10) + 1]>>

\* int(s) of a stripped text: -1 stands for the ValueError raised on text
\* that is not a number.
ParseInt(s) ==
    LET RECURSIVE ParseDigits(_, _)
        ParseDigits(t, acc) ==
            IF t = <<>> THEN acc
            ELSE IF \A i \in 1..10 : Digits[i] # Head(t) THEN -1
            ELSE ParseDigits(Tail(t),
                             10 * acc + (CHOOSE i \in 1..10 : Digits[i] = Head(t)) - 1)
    IN IF s = <<>> THEN -1 ELSE ParseDigits(s, 0)

\* Variant of EscapeChar for json.dumps(..., ensure_ascii=False).
EscapeChar_Raw(c) ==
    CASE c = "\"" -> <<"\\", "\"">>
      [] c = "\\" -> <<"\\", "\\">>
      [] c = "\n" -> <<"\\", "n">>
      [] c = "\r" -> <<"\\", "r">>
      [] OTHER -> <<c>>

\* json.dumps of one character of a string: quote, backslash and control
\* characters are escaped, and so is every character outside ASCII
\* (ensure_ascii is left at its default).
EscapeChar(c) ==
    CASE c = "\"" -> <<"\\", "\"">>
      [] c = "\\" -> <<"\\", "\\">>
      [] c = "\n" -> <<"\\", "n">>
      [] c = "\r" -> <<"\\", "r">>
      [] c = "é" -> <<"\\", "u", "0", "0", "e", "9">>
      [] OTHER -> <<c>>

\* A JSON-RPC message, as far as framing goes: its identifier (NoId when it
\* has none) and one string member.
Message(id, text) == [id |-> id, text |-> text]
NoMessage == [id |-> -1, text |-> <<>>]

\* json.dumps(msg): {<id>,"<text>"} with the identifier left out of a
\* message that has none.
Dumps(msg) ==
    LET RECURSIVE Escape(_)
        Escape(text) ==
            IF text = <<>> THEN <<>>
            ELSE EscapeChar(Head(text)) \o Escape(Tail(text))
    IN <<"{">> \o (IF msg.id # NoId THEN Decimal(msg.id) \o <<",">> ELSE <<>>)
               \o <<"\"">> \o Escape(msg.text) \o <<"\"", "}">>

\* json.loads(content); NoMessage stands for the exception it raises on
\* text that is not a JSON document.
Loads(s) ==
    LET RECURSIVE Unescape(_)
        Unescape(t) ==
            IF t = <<>> THEN <<>>
            ELSE IF Head(t) = "\\" /\ Len(t) >= 2
            THEN IF t[2] = "u" /\ Len(t) >= 6
                    /\ SubSeq(t, 3, 6) = <<"0", "0", "e", "9">>
                 THEN <<"é">> \o Unescape(SubSeq(t, 7, Len(t)))
                 ELSE <<CASE t[2] = "n" -> "\n" [] t[2] = "r" -> "\r"
                          [] OTHER -> t[2]>>
                      \o Unescape(SubSeq(t, 3, Len(t)))
            ELSE <<Head(t)>> \o Unescape(Tail(t))
        commas == {i \in 1..Len(s) : s[i] = ","}
        quote == IF Len(s) >= 2 /\ s[2] = "\"" THEN 2
                 ELSE IF commas = {} THEN 0
                 ELSE (CHOOSE i \in commas : \A j \in commas : i <= j) + 1
        id == IF quote = 2 THEN NoId ELSE ParseInt(SubSeq(s, 2, quote - 2))
    IN IF /\ Len(s) >= 4
          /\ s[1] = "{"
          /\ s[Len(s)] = "}"
          /\ s[Len(s) - 1] = "\""
          /\ quote >= 2
          /\ quote <= Len(s) - 2
          /\ s[quote] = "\""
          /\ id >= 0
       THEN Message(id, Unescape(SubSeq(s, quote + 1, Len(s) - 2)))
       ELSE NoMessage

\* str.encode("utf-8")
RECURSIVE Utf8Encode(_)
Utf8Encode(text) ==
    IF text = <<>> THEN <<>>
    ELSE (IF Head(text) = "é" THEN <<"xC3", "xA9">> ELSE <<Head(text)>>)
         \o Utf8Encode(Tail(text))

\* bytes.decode("utf-8"); "?" stands for the UnicodeDecodeError raised on a
\* sequence cut in the middle of a character.
RECURSIVE Utf8Decode(_)
Utf8Decode(bytes) ==
    IF bytes = <<>> THEN <<>>
    ELSE IF Head(bytes) = "xC3"
    THEN IF Len(bytes) >= 2 /\ bytes[2] = "xA9"
         THEN <<"é">> \o Utf8Decode(SubSeq(bytes, 3, Len(bytes)))
         ELSE <<"?">>
    ELSE IF Head(bytes) = "xA9" THEN <<"?">>
    ELSE <<Head(bytes)>> \o Utf8Decode(Tail(bytes))

\* write_client_message, ALLSPWrapper.send_message and
\* CallHierarchyServer.send_message: the bytes written for msg.
Frame(msg) ==
    LET content == Dumps(msg)
        message == <<"Content-Length", ":", " ">> \o Decimal(Len(content))
                   \o <<"\r", "\n", "\r", "\n">> \o content
    IN Utf8Encode(message)

\* The header loop of the three readers: lines are read (readline: the
\* bytes up to and with the first "\n", or all that is left) up to the empty
\* line; a line with a colon is split at the first one and both sides are
\* stripped; value is the Content-Length seen so far (<<>> when none).  At
\* the end of the stream read_client_message and ALLSPWrapper.read_message
\* leave the loop, CallHierarchyServer.read_message returns None (eofIsNone).
RECURSIVE ReadHeaders(_, _, _)
ReadHeaders(bytes, value, eofIsNone) ==
    LET ends == {i \in 1..Len(bytes) : bytes[i] = "\n"}
        n == IF ends = {} THEN Len(bytes)
             ELSE CHOOSE i \in ends : \A j \in ends : i <= j
        line == Utf8Decode(SubSeq(bytes, 1, n))
        rest == SubSeq(bytes, n + 1, Len(bytes))
        RECURSIVE strip(_)
        strip(t) ==
            IF t # <<>> /\ Head(t) \in {" ", "\r", "\n"} THEN strip(Tail(t))
            ELSE IF t # <<>> /\ t[Len(t)] \in {" ", "\r", "\n"}
            THEN strip(SubSeq(t, 1, Len(t) - 1))
            ELSE t
        colons == {i \in 1..Len(line) : line[i] = ":"}
        c == CHOOSE i \in colons : \A j \in colons : i <= j
        key == strip(SubSeq(line, 1, c - 1))
    IN IF line = <<>>
       THEN [value |-> IF eofIsNone THEN <<>> ELSE value, rest |-> bytes]
       ELSE IF line = <<"\r", "\n">>
       THEN [value |-> value, rest |-> rest]
       ELSE IF colons # {}
       THEN ReadHeaders(rest,
                        IF key = <<"Content-Length">>
                        THEN strip(SubSeq(line, c + 1, Len(line))) ELSE value,
                        eofIsNone)
       ELSE ReadHeaders(rest, value, eofIsNone)

\* The rest of the three readers: no Content-Length header gives None;
\* otherwise content_length bytes are read, decoded and parsed, and every
\* exception gives None.
ReadBody(h) ==
    LET content_length == ParseInt(h.value)
        n == IF content_length > Len(h.rest) THEN Len(h.rest) ELSE content_length
    IN IF h.value = <<>> THEN [msg |-> NoMessage, rest |-> h.rest]
       ELSE IF content_length < 0 THEN [msg |-> NoMessage, rest |-> h.rest]
       ELSE [msg |-> Loads(Utf8Decode(SubSeq(h.rest, 1, n))),
             rest |-> SubSeq(h.rest, n + 1, Len(h.rest))]

\* read_client_message, ALLSPWrapper.read_message and
\* CallHierarchyServer.read_message on the bytes of their stream: the
\* message returned (NoMessage for None) and the bytes left unread.
read_client_message(bytes) == ReadBody(ReadHeaders(bytes, <<>>, FALSE))
read_message(bytes) == ReadBody(ReadHeaders(bytes, <<>>, FALSE))
bridge_read_message(bytes) == ReadBody(ReadHeaders(bytes, <<>>, TRUE))


\* ------------------------------------------------- primary connection
\* A backend is a black box that emits frames on its stdout pipe; the proxy
\* reads them in order, so a step of a read loop is: the next frame the
\* backend emits, read by read_message.
Sent(to, kind, method, id, arg, q) ==
    [to |-> to, kind |-> kind, method |-> method, id |-> id, arg |-> arg,
     query |-> q]
PrimaryNotif(method, arg) == Sent("primary", "notif", method, NoId, arg, <<>>)

\* The messages the current step writes to the backends.
NewlySent == SubSeq(sent', Len(sent) + 1, Len(sent'))

\* The didOpen counts o after the messages msgs were written.
Announced(o, msgs) ==
    [u \in DOMAIN o |->
        o[u] + Cardinality({i \in 1..Len(msgs) :
                              /\ msgs[i].method = "textDocument/didOpen"
                              /\ msgs[i].arg = u})]

\* The number of initialized notifications to the primary backend among msgs.
InitializedAmong(msgs) ==
    Cardinality({i \in 1..Len(msgs) : /\ msgs[i].to = "primary"
                                      /\ msgs[i].method = "initialized"})

\* The root of the last al/setActiveWorkspace request among msgs, or a when
\* there is none.
LastActive(a, msgs) ==
    LET at == {i \in 1..Len(msgs) : msgs[i].method = "al/setActiveWorkspace"}
    IN IF at = {} THEN a
       ELSE msgs[CHOOSE i \in at : \A j \in at : j <= i].arg

\* ALLSPWrapper.send_message: the write raises when the child has exited.
PrimaryWritable == pProc = "alive"

\* ALLSPWrapper.send_request up to its read loop, after the notifications
\* pre were written: allocate the identifier, write the request, then wait
\* at "p_wait"; the caller resumes at k.  When the write raises, control
\* goes to onRaise instead.
CallPrimary(pre, method, arg, q, k, onRaise) ==
    /\ request_id' = request_id + 1
    /\ IF PrimaryWritable
       THEN /\ pInbox' = pInbox \cup {[id |-> request_id + 1, method |-> method]}
            /\ sent' = sent \o pre \o
                       <<Sent("primary", "req", method, request_id + 1, arg, q)>>
            /\ pc' = "p_wait"
            /\ cont' = k
            /\ retFor' = request_id + 1
            /\ ret' = ret
       ELSE /\ pc' = onRaise
            /\ UNCHANGED <<pInbox, sent, callVars>>

\* Variant of IsAwaited that takes the first message read as the response.
IsAwaited_Any(m, rid) == TRUE

\* ALLSPWrapper.send_request, the test of one turn of "while True" on the
\* message m that read_message returned: the response with the awaited
\* identifier is returned, anything else is not.
IsAwaited(m, rid) == m.id = rid

\* One turn of the loop on a response of the backend to a request it has
\* received: returned when it is the awaited one, otherwise dropped.
PrimaryReadResponse ==
    /\ pc = "p_wait"
    /\ pProc = "alive"
    /\ \E r \in pInbox : \E a \in AnswersFor(r.method) :
         LET m == AnswerMsg(r.id, a) IN
         /\ pInbox' = pInbox \ {r}
         /\ IF IsAwaited(m, request_id)
            THEN ret' = m /\ pc' = cont
            ELSE ret' = ret /\ pc' = pc
    /\ UNCHANGED <<loopVars, response, request_id, wrapperVars, primaryVars,
                   bridgeVars, faults, fixedVars, retFor, cont, localVars, sent,
                   logVars>>

\* One turn of the loop on a notification of the backend (a log message,
\* diagnostics): handed to handle_notification, the loop goes on.
PrimaryReadNotification ==
    /\ pc = "p_wait"
    /\ pProc = "alive"
    /\ faults < MaxFaults
    /\ faults' = faults + 1
    /\ IF IsAwaited(Notification, request_id)
       THEN ret' = Notification /\ pc' = cont /\ UNCHANGED notified
       ELSE ret' = ret /\ pc' = pc /\ notified' = notified + 1
    /\ UNCHANGED <<loopVars, response, request_id, wrapperVars, primaryVars,
                   pInbox, bridgeVars, fixedVars, retFor, cont, localVars, sent,
                   activations, late, didOpens, active_workspace, initialized_sent>>

\* One turn of the loop on a frame read_message cannot decode (a header
\* block without Content-Length, a body that is not JSON): read_message and
\* send_request return None.
PrimaryReadBadFrame ==
    /\ pc = "p_wait"
    /\ pProc = "alive"
    /\ faults < MaxFaults
    /\ faults' = faults + 1
    /\ ret' = None
    /\ pc' = cont
    /\ UNCHANGED <<loopVars, response, request_id, wrapperVars, primaryVars,
                   pInbox, bridgeVars, fixedVars, retFor, cont, localVars, sent,
                   logVars>>

\* ALLSPWrapper.read_message at end of stream: readline returns b"", no
\* Content-Length header was seen, the result is None.
PrimaryReadEOF ==
    /\ pc = "p_wait"
    /\ pProc = "exited"
    /\ ret' = None
    /\ pc' = cont
    /\ UNCHANGED <<loopVars, response, request_id, wrapperVars, primaryVars,
                   pInbox, bridgeVars, faults, fixedVars, retFor, cont, localVars,
                   sent, logVars>>

\* The primary backend process exits.
PrimaryExit ==
    /\ pc \in {"main", "p_wait"}
    /\ pProc = "alive"
    /\ faults < MaxFaults
    /\ faults' = faults + 1
    /\ pProc' = "exited"
    /\ UNCHANGED <<pc, loopVars, response, request_id, wrapperVars, pInbox,
                   bridgeVars, fixedVars, callVars, localVars, sent, logVars>>

\* -------------------------------------------------- bridge connection
\* CallHierarchyServer.is_alive
is_alive == bProc = "alive"

\* Variant of BridgeRequest that writes the request on the primary backend's
\* pipe.
BridgeRequest_ToPrimary(method, id) == Sent("primary", "req", method, id, "-", <<>>)

\* CallHierarchyServer.send_request: the request written on the bridge's
\* stdin.
BridgeRequest(method, id) == Sent("bridge", "req", method, id, "-", <<>>)

\* CallHierarchyServer.send_request: None when the process is not alive;
\* otherwise allocate the identifier, write the request and call
\* read_message once (at "b_wait"); the caller resumes at k.
CallBridge(method, k) ==
    IF ~is_alive
    THEN /\ ret' = None
         /\ retFor' = call_hierarchy_server.request_id
         /\ pc' = k
         /\ UNCHANGED <<call_hierarchy_server, bInbox, sent, cont>>
    ELSE /\ call_hierarchy_server' =
              [call_hierarchy_server EXCEPT !.request_id = @ + 1]
         /\ bInbox' = bInbox \cup {[id |-> call_hierarchy_server.request_id + 1,
                                    method |-> method]}
         /\ sent' = Append(sent, BridgeRequest(method,
                                               call_hierarchy_server.request_id + 1))
         /\ retFor' = call_hierarchy_server.request_id + 1
         /\ pc' = "b_wait"
         /\ cont' = k
         /\ ret' = ret

\* CallHierarchyServer.send_request, "return self.read_message()": what is
\* returned for the message m read from the pipe while rid is awaited.
BridgeReturn(m, rid) == m

\* CallHierarchyServer.read_message on a response of the bridge to a
\* request it has received.
BridgeReadResponse ==
    /\ pc = "b_wait"
    /\ is_alive
    /\ \E r \in bInbox : \E a \in BridgeAnswersFor(r.method) :
         /\ bInbox' = bInbox \ {r}
         /\ ret' = BridgeReturn(AnswerMsg(r.id, a), call_hierarchy_server.request_id)
    /\ pc' = cont
    /\ UNCHANGED <<loopVars, response, request_id, wrapperVars, primaryVars,
                   pInbox, call_hierarchy_server, bProc, orphans, faults, fixedVars, retFor,
                   cont, localVars, sent, logVars>>

\* CallHierarchyServer.read_message on a notification of the bridge.
BridgeReadNotification ==
    /\ pc = "b_wait"
    /\ is_alive
    /\ faults < MaxFaults
    /\ faults' = faults + 1
    /\ ret' = BridgeReturn(Notification, call_hierarchy_server.request_id)
    /\ pc' = cont
    /\ UNCHANGED <<loopVars, response, request_id, wrapperVars, primaryVars,
                   pInbox, bridgeVars, fixedVars, retFor, cont, localVars, sent,
                   logVars>>

\* CallHierarchyServer.read_message, select() returned no ready stream after
\* READ_TIMEOUT seconds (not on Windows, where the read blocks).  The bridge
\* either never answers the request or answers it later.
BridgeReadTimeout ==
    /\ pc = "b_wait"
    /\ is_alive
    /\ system # "Windows"
    /\ ret' = None
    /\ pc' = cont
    /\ \/ /\ faults < MaxFaults
          /\ faults' = faults + 1
          /\ late' = late \cup {call_hierarchy_server.request_id}
          /\ UNCHANGED bInbox
       \/ /\ bInbox' = {r \in bInbox : r.id # call_hierarchy_server.request_id}
          /\ UNCHANGED <<faults, late>>
    /\ UNCHANGED <<loopVars, response, request_id, wrapperVars, primaryVars,
                   pInbox, call_hierarchy_server, bProc, orphans, fixedVars, retFor, cont,
                   localVars, sent, notified, activations,
                   didOpens, active_workspace, initialized_sent>>

\* CallHierarchyServer.read_message when the process has exited.
BridgeReadDead ==
    /\ pc = "b_wait"
    /\ ~is_alive
    /\ ret' = None
    /\ pc' = cont
    /\ UNCHANGED <<loopVars, response, request_id, wrapperVars, primaryVars,
                   pInbox, bridgeVars, faults, fixedVars, retFor, cont, localVars,
                   sent, logVars>>

\* The bridge process exits.
BridgeExit ==
    /\ pc \in {"main", "b_wait"}
    /\ is_alive
    /\ faults < MaxFaults
    /\ faults' = faults + 1
    /\ bProc' = "exited"
    /\ UNCHANGED <<pc, loopVars, response, request_id, wrapperVars, primaryVars,
                   pInbox, call_hierarchy_server, bInbox, orphans, fixedVars,
                   callVars, localVars, sent, logVars>>

\* ----------------------------------------------------------- main loop
\* main: read_client_message returned a message; process_request begins.
ClientRead ==
    /\ pc = "main"
    /\ nRead < MaxClientMsgs
    /\ \E m \in ClientMessages, hasId \in BOOLEAN :
         cur' = [m EXCEPT !.id = IF hasId THEN nRead + 1 ELSE NoId]
    /\ nRead' = nRead + 1
    /\ written' = <<>>
    /\ sent' = <<>>
    /\ response' = None
    /\ ret' = None
    /\ retFor' = 0
    /\ cont' = "-"
    /\ polls' = 0
    /\ query' = <<>>
    /\ project_root' = NoRoot
    /\ symbol_name' = <<>>
    /\ fallback_location' = NoLocation
    /\ pc' = "process_request"
    /\ UNCHANGED <<request_id, wrapperVars, primaryVars, pInbox, bridgeVars,
                   faults, fixedVars, logVars>>

\* Variant of AnnotateId that leaves the backend's identifier in place.
AnnotateId_Keep(resp, rid) == resp

\* process_request: "if response: response['id'] = request_id".
AnnotateId(resp, rid) == IF Truthy(resp) THEN [resp EXCEPT !.id = rid] ELSE resp

\* main: "if response: write_client_message(response)", then loop.
WriteResponse ==
    /\ pc = "write"
    /\ written' = IF Truthy(response) THEN Append(written, response) ELSE written
    /\ pc' = "main"
    /\ UNCHANGED <<cur, nRead, response, request_id, wrapperVars, primaryVars,
                   pInbox, bridgeVars, faults, fixedVars, callVars, localVars, sent,
                   logVars>>

\* What the client's stream holds when it ends or carries a frame that
\* cannot be read: nothing, a frame without a Content-Length header, one
\* whose length is not a number, one whose body is not JSON, a frame cut
\* within its body and one cut within its header.
ClosingFrames ==
    [eof |-> <<>>,
     no_header |-> <<"a", ":", " ", "9", "\r", "\n", "\r", "\n">>
                   \o Dumps(Message(12, <<"a">>)),
     bad_length |-> <<"Content-Length", ":", " ", "a", "\r", "\n", "\r", "\n">>
                    \o Dumps(Message(12, <<"a">>)),
     bad_body |-> <<"Content-Length", ":", " ", "3", "\r", "\n", "\r", "\n",
                    "{", "a", "}">>,
     cut_body |-> SubSeq(Frame(Message(12, <<"a">>)), 1,
                         Len(Frame(Message(12, <<"a">>))) - 1),
     cut_header |-> <<"Content-Length", ":", " ", "7">>]

\* main: read_client_message returned None, at the end of the client
\* stream or on a frame it cannot read; the loop is left.
ClientEOF ==
    /\ pc = "main"
    /\ \E k \in DOMAIN ClosingFrames :
         /\ read_client_message(ClosingFrames[k]).msg = NoMessage
         /\ cur' = [NoRequest EXCEPT
                      !.closing = IF k = "eof" THEN "eof" ELSE "malformed"]
    /\ written' = <<>>
    /\ sent' = <<>>
    /\ pc' = "finally"
    /\ UNCHANGED <<nRead, response, request_id, wrapperVars, primaryVars,
                   pInbox, bridgeVars, faults, fixedVars, callVars, localVars,
                   logVars>>

\* Variant of terminate that leaves the process as it is.
terminate_Keep(proc) == proc

\* wrapper.process.terminate()
terminate(proc) == "exited"

\* main, finally block: CallHierarchyServer.shutdown of an existing bridge
\* starts with a shutdown request when its process is alive.
Finally ==
    /\ pc = "finally"
    /\ IF call_hierarchy_server.present /\ is_alive
       THEN CallBridge("shutdown", "finally_stop")
       ELSE /\ pc' = "finally_stop"
            /\ UNCHANGED <<call_hierarchy_server, bInbox, sent, callVars>>
    /\ UNCHANGED <<loopVars, response, request_id, wrapperVars, primaryVars,
                   pInbox, bProc, orphans, faults, fixedVars, localVars, logVars>>

\* main, finally block, rest: the exit notification and
\* CallHierarchyServer.stop, then wrapper.process.terminate().  main returns,
\* and at the interpreter's exit the shutdown that start() registered with
\* atexit runs for every bridge that was started, also for those whose
\* handle was dropped.
FinallyStop ==
    /\ pc = "finally_stop"
    /\ IF call_hierarchy_server.present
       THEN /\ bProc' = IF is_alive THEN "exited" ELSE bProc
            /\ call_hierarchy_server' =
                 [call_hierarchy_server EXCEPT !.initialized = FALSE]
       ELSE UNCHANGED <<bProc, call_hierarchy_server>>
    /\ pProc' = terminate(pProc)
    /\ orphans' = orphans - orphans
    /\ pc' = "stopped"
    /\ UNCHANGED <<loopVars, response, request_id, wrapperVars, pInbox,
                   bInbox, faults, fixedVars, callVars, localVars, sent,
                   logVars>>

\* ----------------------------------------------- passthrough, initialized
\* process_request, last branch: any other method.  With an identifier the
\* message is sent as a request, without one as a notification.
Passthrough ==
    /\ pc = "process_request"
    /\ cur.method \in OtherMethods
    /\ IF cur.id # NoId
       THEN /\ CallPrimary(<<>>, cur.method, "-", <<>>, "passthrough_ret", "finally")
            /\ UNCHANGED response
       ELSE /\ IF PrimaryWritable
               THEN /\ sent' = Append(sent, PrimaryNotif(cur.method, "-"))
                    /\ response' = None
                    /\ pc' = "write"
               ELSE /\ pc' = "finally"
                    /\ UNCHANGED <<sent, response>>
            /\ UNCHANGED <<request_id, pInbox, callVars>>
    /\ UNCHANGED <<loopVars, wrapperVars, primaryVars, bridgeVars, faults, fixedVars,
                   localVars, logVars>>

\* Variant of PassthroughResult that hands on what send_request returned.
PassthroughResult_AsIs(r, id) == r

\* "if response: response['id'] = request_id" and
\* "return response or {'jsonrpc': '2.0', 'id': request_id, 'result': None}"
PassthroughResult(r, id) ==
    IF Truthy(r) THEN AnnotateId(r, id) ELSE Result(id, "null", 0)

\* process_request, last branch, after send_request.
PassthroughReturn ==
    /\ pc = "passthrough_ret"
    /\ response' = PassthroughResult(ret, cur.id)
    /\ pc' = "write"
    /\ UNCHANGED <<loopVars, request_id, wrapperVars, primaryVars, pInbox,
                   bridgeVars, faults, fixedVars, callVars, localVars, sent, logVars>>

\* process_request, method "initialized": forwarded as a notification, the
\* handler returns None.
HandleInitialized ==
    /\ pc = "process_request"
    /\ cur.method = "initialized"
    /\ IF PrimaryWritable
       THEN /\ sent' = Append(sent, PrimaryNotif("initialized", "-"))
            /\ pc' = "write"
       ELSE /\ pc' = "finally"
            /\ UNCHANGED sent
    /\ response' = None
    /\ initialized_sent' = initialized_sent + InitializedAmong(NewlySent)
    /\ UNCHANGED <<loopVars, request_id, wrapperVars, primaryVars, pInbox,
                   bridgeVars, faults, fixedVars, callVars, localVars, notified,
                   activations, late, didOpens, active_workspace>>

\* ------------------------------------------------------------ initialize
\* ALLSPWrapper.initialize up to send_request: workspace_root is the client's
\* rootPath, root_path the detected project or else the workspace root.
HandleInitialize ==
    /\ pc = "process_request"
    /\ cur.method = "initialize"
    /\ workspace_root' = cur.uri
    /\ \E al_project \in find_al_project(FileSystem, cur.uri) :
         LET root == IF al_project # NoRoot THEN al_project ELSE cur.uri
         IN
          /\ root_path' = root
          /\ CallPrimary(<<>>, "initialize", IF root # NoRoot THEN root ELSE "cwd",
                         <<>>, "initialize_ret", "finally")
    /\ UNCHANGED <<loopVars, response, initialized, opened_files,
                   initialized_projects, primaryVars, bridgeVars, faults, fixedVars,
                   localVars, logVars>>

\* Variant of ConfigurationNotifs that opens app.json before it configures.
ConfigurationNotifs_OpenFirst(root) ==
    (IF Readable(ManifestUri(root))
     THEN <<PrimaryNotif("textDocument/didOpen", ManifestUri(root))>>
     ELSE <<>>)
    \o <<PrimaryNotif("workspace/didChangeConfiguration", root)>>

\* _post_initialize and _ensure_project_initialized, first part: the
\* configuration notification, then the didOpen of an existing app.json.
ConfigurationNotifs(root) ==
    <<PrimaryNotif("workspace/didChangeConfiguration", root)>>
    \o (IF Readable(ManifestUri(root))
        THEN <<PrimaryNotif("textDocument/didOpen", ManifestUri(root))>>
        ELSE <<>>)

\* ALLSPWrapper.initialize after send_request, and _post_initialize up to
\* al/setActiveWorkspace.  A write to an exited backend raises at the
\* initialized notification, outside any try block.
InitializeReturn ==
    /\ pc = "initialize_ret"
    /\ IF HasResult(ret)
       THEN /\ initialized' = TRUE
            /\ response' = ret
            /\ IF ~PrimaryWritable
               THEN /\ pc' = "finally"
                    /\ UNCHANGED <<request_id, pInbox, sent, callVars>>
               ELSE IF root_path = NoRoot
               THEN /\ sent' = Append(sent, PrimaryNotif("initialized", "-"))
                    /\ pc' = "initialize_done"
                    /\ UNCHANGED <<request_id, pInbox, callVars>>
               ELSE CallPrimary(<<PrimaryNotif("initialized", "-")>>
                                  \o ConfigurationNotifs(root_path),
                                "al/setActiveWorkspace", root_path, <<>>,
                                "wait_load", "wait_load")
       ELSE /\ response' = IF Truthy(ret) THEN ret ELSE Result(NoId, "emptyobj", 0)
            /\ pc' = "initialize_done"
            /\ UNCHANGED <<initialized, request_id, pInbox, sent, callVars>>
    /\ didOpens' = Announced(didOpens, NewlySent)
    /\ active_workspace' = LastActive(active_workspace, NewlySent)
    /\ initialized_sent' = initialized_sent + InitializedAmong(NewlySent)
    /\ UNCHANGED <<loopVars, root_path, workspace_root, opened_files,
                   initialized_projects, primaryVars, bridgeVars, faults, fixedVars,
                   localVars, notified, activations, late>>

\* Where _wait_for_project_load returns to.
AfterWait ==
    IF cur.method = "initialize" THEN "post_init_track" ELSE "symbol_search"

\* _wait_for_project_load, loop head: while the timeout has not elapsed,
\* check_project_loaded sends the readiness request.  The first check happens
\* at once; the timeout elapses after MaxPolls checks at the latest.
WaitForProjectLoad ==
    /\ pc = "wait_load"
    /\ \/ /\ polls < MaxPolls
          /\ polls' = polls + 1
          /\ CallPrimary(<<>>, "al/hasProjectClosureLoadedRequest", "-", <<>>,
                         "check_ret", AfterWait)
       \/ /\ polls >= 1
          /\ pc' = AfterWait
          /\ UNCHANGED <<polls, request_id, pInbox, sent, callVars>>
    /\ UNCHANGED <<loopVars, response, wrapperVars, primaryVars, bridgeVars,
                   faults, fixedVars, query, project_root, symbol_name,
                   fallback_location, logVars>>

\* check_project_loaded on its response: a boolean result is the answer, an
\* object gives its "loaded" member (data = 1: true), null counts as loaded,
\* everything else (no response, an error, another type) as not loaded.
ProjectLoaded(r) ==
    /\ HasResult(r)
    /\ \/ r.val = "true"
       \/ r.val = "obj" /\ r.data = 1
       \/ r.val = "null"

\* _wait_for_project_load after check_project_loaded: return when loaded,
\* else sleep and loop.
CheckProjectLoaded ==
    /\ pc = "check_ret"
    /\ pc' = IF ProjectLoaded(ret) THEN AfterWait ELSE "wait_load"
    /\ UNCHANGED <<loopVars, response, request_id, wrapperVars, primaryVars,
                   pInbox, bridgeVars, faults, fixedVars, callVars, localVars, sent,
                   logVars>>

\* --------------------------------------------------- bridge start-up
\* Variant of workspace_path that takes the resolved project root.
workspace_path_Project == root_path

\* _start_call_hierarchy_server: "self.workspace_root or self.root_path",
\* the directory the bridge is initialized with.
workspace_path == IF workspace_root # NoRoot THEN workspace_root ELSE root_path

\* "self.call_hierarchy_server = CallHierarchyServer()": the handle held so
\* far is overwritten; its process, if it is running, goes on running.
Dropped(n, proc) == IF proc = "alive" THEN n + 1 ELSE n

\* _post_initialize after the readiness wait: track the project, then
\* _start_call_hierarchy_server.  The executable may be missing, Popen may
\* raise, or a new process starts and CallHierarchyServer.initialize sends
\* its initialize request with the workspace root.
StartCallHierarchyServer ==
    /\ pc = "post_init_track"
    /\ initialized_projects' = initialized_projects \cup {root_path}
    /\ \/ \* find_call_hierarchy_executable() is None
          /\ pc' = "initialize_done"
          /\ UNCHANGED <<bridgeVars, sent, callVars, late>>
       \/ \* CallHierarchyServer.start returns False
          /\ call_hierarchy_server' = NoServer
          /\ bProc' = "none"
          /\ bInbox' = {}
          /\ orphans' = Dropped(orphans, bProc)
          /\ pc' = "initialize_done"
          /\ UNCHANGED <<sent, callVars, late>>
       \/ \* started; initialize is request 1 on the new connection
          /\ call_hierarchy_server' = [NewServer EXCEPT !.request_id = 1]
          /\ bProc' = "alive"
          /\ orphans' = Dropped(orphans, bProc)
          /\ bInbox' = {[id |-> 1, method |-> "initialize"]}
          /\ sent' = Append(sent, Sent("bridge", "req", "initialize", 1,
                        workspace_path,
                        <<>>))
          /\ retFor' = 1
          /\ cont' = "bridge_init_ret"
          /\ pc' = "b_wait"
          /\ late' = {}
          /\ UNCHANGED ret
    /\ UNCHANGED <<loopVars, response, request_id, initialized, root_path,
                   workspace_root, opened_files, primaryVars, pInbox, faults,
                   fixedVars, localVars, notified, activations, didOpens,
                   active_workspace, initialized_sent>>

\* Variant of Negotiated that takes any result for a success.
Negotiated_AnyResult(r) == HasResult(r)

\* CallHierarchyServer.initialize on its response: caps.get(
\* "callHierarchyProvider") of a result (data = 1).
Negotiated(r) == HasResult(r) /\ r.val = "obj" /\ r.data = 1

\* CallHierarchyServer.initialize after send_request.  Success sends the
\* initialized notification and sets initialized; failure makes
\* _start_call_hierarchy_server call shutdown(), which first requests
\* "shutdown" from a process that is alive.
BridgeInitializeReturn ==
    /\ pc = "bridge_init_ret"
    /\ IF Negotiated(ret)
       THEN /\ call_hierarchy_server' =
                 [call_hierarchy_server EXCEPT !.initialized = TRUE]
            /\ sent' = IF is_alive
                       THEN Append(sent, Sent("bridge", "notif", "initialized",
                                              NoId, "-", <<>>))
                       ELSE sent
            /\ pc' = "initialize_done"
            /\ UNCHANGED <<bInbox, callVars>>
       ELSE CallBridge("shutdown", "bridge_shutdown_ret")
    /\ UNCHANGED <<loopVars, response, request_id, wrapperVars, primaryVars,
                   pInbox, bProc, orphans, faults, fixedVars, localVars, logVars>>

\* CallHierarchyServer.shutdown after the shutdown request: the exit
\* notification, stop(); then "self.call_hierarchy_server = None".
BridgeShutdownReturn ==
    /\ pc = "bridge_shutdown_ret"
    /\ bProc' = IF is_alive THEN "exited" ELSE bProc
    /\ bInbox' = {}
    /\ call_hierarchy_server' = NoServer
    /\ sent' = IF is_alive
               THEN Append(sent, Sent("bridge", "notif", "exit", NoId, "-", <<>>))
               ELSE sent
    /\ pc' = "initialize_done"
    /\ UNCHANGED <<loopVars, response, request_id, wrapperVars, primaryVars,
                   pInbox, orphans, faults, fixedVars, callVars, localVars,
                   logVars>>

\* process_request, initialize branch, after self.initialize(params).
InitializeDone ==
    /\ pc = "initialize_done"
    /\ response' = AnnotateId(response, cur.id)
    /\ pc' = "write"
    /\ UNCHANGED <<loopVars, request_id, wrapperVars, primaryVars, pInbox,
                   bridgeVars, faults, fixedVars, callVars, localVars, sent, logVars>>

\* ------------------------------------------------------- call hierarchy
MethodNotFound == -32601

\* "if self.call_hierarchy_server and self.call_hierarchy_server.initialized"
BridgeAvailable ==
    call_hierarchy_server.present /\ call_hierarchy_server.initialized

\* Variant of UnavailableResponse that answers like a bridge without result.
UnavailableResponse_Null(rid) == Result(rid, "null", 0)

\* The response process_request builds when the bridge is not available.
UnavailableResponse(rid) == Error(rid, MethodNotFound)

\* process_request, call-hierarchy branch: route to the bridge when it is
\* available, else answer with the "not available" error.
HandleCallHierarchy ==
    /\ pc = "process_request"
    /\ cur.method \in CallHierarchyMethods
    /\ IF BridgeAvailable
       THEN /\ CallBridge(cur.method, "call_hierarchy_ret")
            /\ UNCHANGED response
       ELSE /\ response' = UnavailableResponse(cur.id)
            /\ pc' = "write"
            /\ UNCHANGED <<call_hierarchy_server, bInbox, sent, callVars>>
    /\ UNCHANGED <<loopVars, request_id, wrapperVars, primaryVars, pInbox, bProc, orphans,
                   faults, fixedVars, localVars, logVars>>

\* process_request after call_hierarchy_server.request(): the response with
\* the client's identifier, or a null result when there is none.
CallHierarchyReturn ==
    /\ pc = "call_hierarchy_ret"
    /\ response' = IF Truthy(ret) THEN AnnotateId(ret, cur.id)
                                  ELSE Result(cur.id, "null", 0)
    /\ pc' = "write"
    /\ UNCHANGED <<loopVars, request_id, wrapperVars, primaryVars, pInbox,
                   bridgeVars, faults, fixedVars, callVars, localVars, sent, logVars>>

\* -------------------------------------------- document-context handlers
\* handle_hover / handle_document_symbol / handle_references /
\* handle_definition: the handler starts with _ensure_project_initialized.
HandleDocRequest ==
    /\ pc = "process_request"
    /\ cur.method \in DocMethods \cup {"textDocument/definition"}
    /\ pc' = "ensure_project"
    /\ UNCHANGED <<loopVars, response, request_id, wrapperVars, primaryVars,
                   pInbox, bridgeVars, faults, fixedVars, callVars, localVars, sent,
                   logVars>>

\* The URI _ensure_project_initialized is called with: the document's, or
\* handle_workspace_symbol's dummy "<root_path>/app.json".
EnsureUri ==
    IF cur.method = "workspace/symbol" THEN ManifestUri(root_path) ELSE cur.uri

\* Variant of AfterEnsureProject that leaves _ensure_file_opened out.
AfterEnsureProject_SkipOpen ==
    IF cur.method = "workspace/symbol" THEN "wait_load"
    ELSE IF cur.method = "textDocument/definition" THEN "goto_definition"
    ELSE "forward"

\* Where the handler goes on after _ensure_project_initialized:
\* handle_workspace_symbol to _wait_for_project_load, the document handlers
\* to _ensure_file_opened.
AfterEnsureProject ==
    IF cur.method = "workspace/symbol" THEN "wait_load" ELSE "ensure_file"

\* _ensure_project_initialized up to its send_request: no project, or an
\* initialized one, returns at once; otherwise the configuration
\* notification and the manifest's didOpen are written and
\* al/setActiveWorkspace is requested.
EnsureProjectInitialized ==
    /\ pc = "ensure_project"
    /\ LET root == find_project_for_file(FileSystem, EnsureUri) IN
       IF root = NoRoot \/ root \in initialized_projects
       THEN /\ project_root' = root
            /\ pc' = AfterEnsureProject
            /\ UNCHANGED <<request_id, pInbox, sent, callVars, activations>>
       ELSE IF ~PrimaryWritable
       THEN \* send_notification raises outside any try block
            /\ pc' = "finally"
            /\ UNCHANGED <<request_id, pInbox, sent, callVars, project_root,
                           activations>>
       ELSE /\ CallPrimary(ConfigurationNotifs(root), "al/setActiveWorkspace",
                           root, <<>>, "ensure_project_mark", "ensure_project_mark")
            /\ activations' = [activations EXCEPT ![root] = @ + 1]
            /\ UNCHANGED project_root
    /\ UNCHANGED <<loopVars, response, wrapperVars, primaryVars, bridgeVars,
                   faults, fixedVars, polls, query, symbol_name, fallback_location,
                   notified, late, initialized_sent>>
    /\ didOpens' = Announced(didOpens, NewlySent)
    /\ active_workspace' = LastActive(active_workspace, NewlySent)

\* Variant of MarkInitialized that forgets the project.
MarkInitialized_Forget(projects, root) == projects

\* "self.initialized_projects.add(project_root)"
MarkInitialized(projects, root) == projects \cup {root}

\* _ensure_project_initialized after al/setActiveWorkspace returned (or
\* raised inside the try block): mark the project and return its root.
EnsureProjectMark ==
    /\ pc = "ensure_project_mark"
    /\ LET root == find_project_for_file(FileSystem, EnsureUri) IN
       /\ initialized_projects' = MarkInitialized(initialized_projects, root)
       /\ project_root' = root
    /\ pc' = AfterEnsureProject
    /\ UNCHANGED <<loopVars, response, request_id, initialized, root_path,
                   workspace_root, opened_files, primaryVars, pInbox, bridgeVars,
                   faults, fixedVars, callVars, polls, query, symbol_name,
                   fallback_location, sent,
                   logVars>>

\* _ensure_file_opened: a document not yet in opened_files is read and
\* announced with textDocument/didOpen; a failure to read or to write is
\* caught and leaves opened_files as it was.
EnsureFileOpened ==
    /\ pc = "ensure_file"
    /\ IF cur.uri \notin opened_files /\ Readable(cur.uri) /\ PrimaryWritable
       THEN /\ sent' = Append(sent, PrimaryNotif("textDocument/didOpen", cur.uri))
            /\ opened_files' = opened_files \cup {cur.uri}
       ELSE UNCHANGED <<sent, opened_files>>
    /\ pc' = IF cur.method = "textDocument/definition" THEN "goto_definition"
                                                        ELSE "forward"
    /\ didOpens' = Announced(didOpens, NewlySent)
    /\ UNCHANGED <<loopVars, response, request_id, initialized, root_path,
                   workspace_root, initialized_projects, primaryVars, pInbox,
                   bridgeVars, faults, fixedVars, callVars, localVars, notified,
                   activations, late, active_workspace, initialized_sent>>

\* handle_hover / handle_document_symbol / handle_references: the request
\* is forwarded under its own method name.
ForwardDocRequest ==
    /\ pc = "forward"
    /\ CallPrimary(<<>>, cur.method, cur.uri, <<>>, "doc_ret", "finally")
    /\ UNCHANGED <<loopVars, response, wrapperVars, primaryVars, bridgeVars,
                   faults, fixedVars, localVars, logVars>>

\* "return self.send_request(...) or {}", then process_request's
\* "if response: response['id'] = request_id".
DocReturn ==
    /\ pc = "doc_ret"
    /\ response' = AnnotateId(IF Truthy(ret) THEN ret ELSE EmptyDict, cur.id)
    /\ pc' = "write"
    /\ UNCHANGED <<loopVars, request_id, wrapperVars, primaryVars, pInbox,
                   bridgeVars, faults, fixedVars, callVars, localVars, sent, logVars>>

\* ------------------------------------------------ definition and fallback
\* Names are sequences of characters.
Lower(s) ==
    [i \in 1..Len(s) |->
        CASE s[i] = "F" -> "f" [] s[i] = "O" -> "o" [] s[i] = "B" -> "b"
          [] OTHER -> s[i]]

RECURSIVE Strip(_)
Strip(s) ==
    IF s # <<>> /\ Head(s) = " " THEN Strip(Tail(s))
    ELSE IF s # <<>> /\ s[Len(s)] = " " THEN Strip(SubSeq(s, 1, Len(s) - 1))
    ELSE s

\* Variant of clean_symbol_name that keeps the parameter list.
clean_symbol_name_AsIs(name) == name

\* _clean_symbol_name: cut at the first "(" unless the name starts with it.
clean_symbol_name(name) ==
    LET opens == {i \in 1..Len(name) : name[i] = "("}
        idx == IF opens = {} THEN -1
               ELSE (CHOOSE i \in opens : \A j \in opens : i <= j) - 1
    IN IF idx > 0 THEN Strip(SubSeq(name, 1, idx)) ELSE name

\* An outline node: has is the set of its location members.
Node(id, name, has, children) ==
    [id |-> id, name |-> name, has |-> has, children |-> children]

\* _find_symbol_location: depth-first search for a node whose name, or
\* cleaned name, equals the wanted symbol_name ignoring case; of a matching node the
\* location, else the selectionRange, else the range is returned, the last
\* two together with file_uri (a location member is returned as it is).
RECURSIVE find_symbol_location(_, _, _)
find_symbol_location(symbols, wanted, file_uri) ==
    IF symbols = <<>> THEN NoLocation
    ELSE LET sym == Head(symbols)
             matches == \/ Lower(sym.name) = Lower(wanted)
                        \/ Lower(clean_symbol_name(sym.name)) = Lower(wanted)
             own == IF ~matches THEN NoLocation
                    ELSE IF "location" \in sym.has
                    THEN [member |-> "location", node |-> sym.id, uri |-> NoUri]
                    ELSE IF "selectionRange" \in sym.has
                    THEN [member |-> "selectionRange", node |-> sym.id,
                          uri |-> file_uri]
                    ELSE IF "range" \in sym.has
                    THEN [member |-> "range", node |-> sym.id, uri |-> file_uri]
                    ELSE NoLocation
             below == IF sym.children # <<>>
                      THEN find_symbol_location(sym.children, wanted, file_uri)
                      ELSE NoLocation
         IN IF own # NoLocation THEN own
            ELSE IF below # NoLocation THEN below
            ELSE find_symbol_location(Tail(symbols), wanted, file_uri)

\* The hover results the backend returns (by data): 1 is
\* {"contents": {"value": "procedure Fo(...)"}}, 2 is {"contents": [...]},
\* from which _extract_symbol_from_hover extracts "Fo" and "".
extract_symbol_from_hover(data) ==
    IF data = 1 THEN <<"F", "o">> ELSE <<>>

\* The outlines the backend returns (by data).
Outline(data) ==
    IF data = 1
    THEN <<Node(1, <<"B">>, {"range"}, <<>>),
           Node(2, <<"f", "o", "(", ")">>, {"selectionRange", "range"}, <<>>)>>
    ELSE <<Node(1, <<"B">>, {"range"},
                <<Node(2, <<"B", "o">>, {"range"}, <<>>)>>)>>

\* Variant of is_empty_definition_result that takes every result for empty.
is_empty_definition_result_Any(val) == val = val

\* _is_empty_definition_result
is_empty_definition_result(val) == val \in {"null", "emptylist"}

\* handle_definition: al/gotodefinition is tried first; a write that raises
\* is caught and leads to the standard request.
GotoDefinition ==
    /\ pc = "goto_definition"
    /\ CallPrimary(<<>>, "al/gotodefinition", cur.uri, <<>>, "definition_ret",
                   "definition_std")
    /\ UNCHANGED <<loopVars, response, wrapperVars, primaryVars, bridgeVars,
                   faults, fixedVars, localVars, logVars>>

\* handle_definition after al/gotodefinition: a non-empty result is returned;
\* an empty one starts _try_document_symbol_fallback with a hover request;
\* no result member leads to the standard request.
DefinitionReturn ==
    /\ pc = "definition_ret"
    /\ IF HasResult(ret)
       THEN /\ response' = ret
            /\ IF ~is_empty_definition_result(ret.val)
               THEN /\ pc' = "definition_done"
                    /\ UNCHANGED <<request_id, pInbox, sent, callVars>>
               ELSE CallPrimary(<<>>, "textDocument/hover", cur.uri, <<>>,
                                "fallback_hover_ret", "definition_done")
       ELSE /\ pc' = "definition_std"
            /\ UNCHANGED <<response, request_id, pInbox, sent, callVars>>
    /\ UNCHANGED <<loopVars, wrapperVars, primaryVars, bridgeVars, faults, fixedVars,
                   localVars, logVars>>

\* _try_document_symbol_fallback after the hover request: without a result,
\* with a falsy result or without an extracted name it returns None; else
\* it requests the document's outline.
FallbackHoverReturn ==
    /\ pc = "fallback_hover_ret"
    /\ IF /\ HasResult(ret)
          /\ ret.val \notin {"null", "emptyobj", "emptylist", "false"}
          /\ extract_symbol_from_hover(ret.data) # <<>>
       THEN /\ symbol_name' = extract_symbol_from_hover(ret.data)
            /\ CallPrimary(<<>>, "textDocument/documentSymbol", cur.uri, <<>>,
                           "fallback_symbols_ret", "definition_done")
       ELSE /\ pc' = "definition_done"
            /\ UNCHANGED <<request_id, pInbox, sent, callVars, symbol_name>>
    /\ UNCHANGED <<loopVars, response, wrapperVars, primaryVars, bridgeVars,
                   faults, fixedVars, polls, query, project_root, fallback_location,
                   logVars>>

\* _try_document_symbol_fallback after the outline request: the location
\* found in a non-empty outline, or None.
FallbackSymbolsReturn ==
    /\ pc = "fallback_symbols_ret"
    /\ fallback_location' =
         IF HasResult(ret) /\ ret.val \notin {"null", "emptylist"}
         THEN find_symbol_location(Outline(ret.data), symbol_name, cur.uri)
         ELSE NoLocation
    /\ pc' = "definition_done"
    /\ UNCHANGED <<loopVars, response, request_id, wrapperVars, primaryVars,
                   pInbox, bridgeVars, faults, fixedVars, callVars, polls, query,
                   project_root, symbol_name, sent, logVars>>

\* handle_definition, last line: the standard request, "or {}".
DefinitionStandard ==
    /\ pc = "definition_std"
    /\ CallPrimary(<<>>, "textDocument/definition", cur.uri, <<>>,
                   "definition_std_ret", "finally")
    /\ UNCHANGED <<loopVars, response, wrapperVars, primaryVars, bridgeVars,
                   faults, fixedVars, localVars, logVars>>

DefinitionStandardReturn ==
    /\ pc = "definition_std_ret"
    /\ response' = IF Truthy(ret) THEN ret ELSE EmptyDict
    /\ pc' = "definition_done"
    /\ UNCHANGED <<loopVars, request_id, wrapperVars, primaryVars, pInbox,
                   bridgeVars, faults, fixedVars, callVars, localVars, sent, logVars>>

\* Variant of DefinitionResult that always builds a location response.
DefinitionResult_Always(original, location) ==
    Result(NoId, "location", location.node)

\* handle_definition, the end of its try block: a location the fallback
\* found is returned as {"jsonrpc": "2.0", "result": location}, otherwise
\* the response the handler holds.
DefinitionResult(original, location) ==
    IF location # NoLocation THEN Result(NoId, "location", location.node)
                             ELSE original

\* process_request, definition branch, after self.handle_definition(params).
DefinitionDone ==
    /\ pc = "definition_done"
    /\ response' = AnnotateId(DefinitionResult(response, fallback_location), cur.id)
    /\ pc' = "write"
    /\ UNCHANGED <<loopVars, request_id, wrapperVars, primaryVars, pInbox,
                   bridgeVars, faults, fixedVars, callVars, localVars, sent, logVars>>


\* ------------------------------------------------------ workspace/symbol
InvalidParams == -32602

\* params.get("query", "")
QueryOf(request) == IF request.hasQuery THEN request.query ELSE <<>>

\* handle_workspace_symbol up to the readiness wait: a blank query is
\* answered with the invalid-params error at once; otherwise the query is
\* rewritten and, when root_path is set, _ensure_project_initialized is
\* called for "<root_path>/app.json".
HandleWorkspaceSymbol ==
    /\ pc = "process_request"
    /\ cur.method = "workspace/symbol"
    /\ IF IsBlankQuery(QueryOf(cur))
       THEN /\ response' = Error(NoId, InvalidParams)
            /\ pc' = "symbol_done"
            /\ UNCHANGED query
       ELSE /\ query' = RewriteQuery(QueryOf(cur))
            /\ pc' = IF root_path # NoRoot THEN "ensure_project" ELSE "wait_load"
            /\ UNCHANGED response
    /\ UNCHANGED <<loopVars, request_id, wrapperVars, primaryVars, pInbox,
                   bridgeVars, faults, fixedVars, callVars, polls, project_root,
                   symbol_name, fallback_location, sent, logVars>>

\* handle_workspace_symbol: the standard search request.
SymbolSearch ==
    /\ pc = "symbol_search"
    /\ CallPrimary(<<>>, "workspace/symbol", "-", query, "symbol_ret", "finally")
    /\ UNCHANGED <<loopVars, response, wrapperVars, primaryVars, bridgeVars,
                   faults, fixedVars, localVars, logVars>>

\* Variant of NonEmptyList that is content with any result.
NonEmptyList_Any(r) == HasResult(r)

\* "isinstance(result, list) and len(result) > 0" of response.get("result")
NonEmptyList(r) == HasResult(r) /\ r.val = "list"

\* handle_workspace_symbol after workspace/symbol: a non-empty list is
\* returned, anything else leads to al/symbolSearch.
SymbolReturn ==
    /\ pc = "symbol_ret"
    /\ IF NonEmptyList(ret)
       THEN /\ response' = ret
            /\ pc' = "symbol_done"
            /\ UNCHANGED <<request_id, pInbox, sent, callVars>>
       ELSE /\ CallPrimary(<<>>, "al/symbolSearch", "-", query, "al_symbol_ret",
                           "finally")
            /\ UNCHANGED response
    /\ UNCHANGED <<loopVars, wrapperVars, primaryVars, bridgeVars, faults, fixedVars,
                   localVars, logVars>>

\* Variant of SymbolResult that hands on whatever al/symbolSearch answered.
SymbolResult_AsIs(al_response) ==
    IF Truthy(al_response) THEN al_response ELSE Result(NoId, "null", 0)

\* The value handle_workspace_symbol returns after al/symbolSearch.
SymbolResult(al_response) ==
    IF NonEmptyList(al_response) THEN al_response ELSE Result(NoId, "emptylist", 0)

AlSymbolReturn ==
    /\ pc = "al_symbol_ret"
    /\ response' = SymbolResult(ret)
    /\ pc' = "symbol_done"
    /\ UNCHANGED <<loopVars, request_id, wrapperVars, primaryVars, pInbox,
                   bridgeVars, faults, fixedVars, callVars, localVars, sent, logVars>>

\* process_request, workspace/symbol branch, after the handler returned.
SymbolDone ==
    /\ pc = "symbol_done"
    /\ response' = AnnotateId(response, cur.id)
    /\ pc' = "write"
    /\ UNCHANGED <<loopVars, request_id, wrapperVars, primaryVars, pInbox,
                   bridgeVars, faults, fixedVars, callVars, localVars, sent, logVars>>

\* ------------------------------------------------------- specification
\* The client sends a message or closes its stream.
ClientStep ==
    \/ ClientRead
    \/ ClientEOF

\* Steps of the proxy thread that depend on nothing but the thread itself.
HandlerStep ==
    \/ WriteResponse
    \/ Finally
    \/ FinallyStop
    \/ Passthrough
    \/ PassthroughReturn
    \/ HandleInitialized
    \/ HandleInitialize
    \/ InitializeReturn
    \/ WaitForProjectLoad
    \/ CheckProjectLoaded
    \/ StartCallHierarchyServer
    \/ BridgeInitializeReturn
    \/ BridgeShutdownReturn
    \/ InitializeDone
    \/ HandleCallHierarchy
    \/ CallHierarchyReturn
    \/ HandleDocRequest
    \/ EnsureProjectInitialized
    \/ EnsureProjectMark
    \/ EnsureFileOpened
    \/ ForwardDocRequest
    \/ DocReturn
    \/ GotoDefinition
    \/ DefinitionReturn
    \/ FallbackHoverReturn
    \/ FallbackSymbolsReturn
    \/ DefinitionStandard
    \/ DefinitionStandardReturn
    \/ DefinitionDone
    \/ HandleWorkspaceSymbol
    \/ SymbolSearch
    \/ SymbolReturn
    \/ AlSymbolReturn
    \/ SymbolDone

\* A read that returns because a backend emitted a frame.
FrameStep ==
    \/ PrimaryReadResponse
    \/ PrimaryReadNotification
    \/ PrimaryReadBadFrame
    \/ BridgeReadResponse
    \/ BridgeReadNotification

\* A read that returns without a frame: end of stream, the select()
\* timeout, a dead process.
NoFrameStep ==
    \/ PrimaryReadEOF
    \/ BridgeReadTimeout
    \/ BridgeReadDead

BackendStep ==
    \/ PrimaryExit
    \/ BridgeExit

Next == ClientStep \/ HandlerStep \/ FrameStep \/ NoFrameStep \/ BackendStep

Spec == Init /\ [][Next]_vars

\* The proxy thread keeps running: a handler step that is possible is taken,
\* readline() at end of stream returns, select() returns when its timeout
\* has elapsed.  Nothing obliges the client to send or a backend to emit.
FairSpec == Spec /\ WF_vars(HandlerStep) /\ WF_vars(NoFrameStep)

\* ------------------------------------------------- framing, the runs
\* The messages written in the runs that look at the framing alone.
Messages ==
    {Message(id, t) :
       id \in {NoId, 12},
       t \in {<<>>, <<"a">>, <<"é">>, <<"\r", "\n">>, <<"\"", "\\">>,
              <<"a", "é", "a", "a", "é">>}}

\* A message is written on channel c.
WriteMessage ==
    /\ Len(wrote["client"]) + Len(wrote["primary"]) + Len(wrote["bridge"])
         < MaxFrames
    /\ \E c \in Channels, msg \in Messages :
         /\ stream' = [stream EXCEPT ![c] = @ \o Frame(msg)]
         /\ wrote' = [wrote EXCEPT ![c] = Append(@, msg)]
    /\ UNCHANGED <<sessionVars, system, got, unit, out, stderrVars>>

\* One message is read from channel c, on which bytes are waiting.
ReadMessage ==
    /\ \E c \in Channels :
         /\ stream[c] # <<>>
         /\ LET r == CASE c = "client" -> read_client_message(stream[c])
                       [] c = "primary" -> read_message(stream[c])
                       [] c = "bridge" -> bridge_read_message(stream[c])
            IN /\ got' = [got EXCEPT ![c] = Append(@, r.msg)]
               /\ stream' = [stream EXCEPT ![c] = r.rest]
    /\ UNCHANGED <<sessionVars, system, wrote, unit, out, stderrVars>>

FramingSpec == Init /\ [][WriteMessage \/ ReadMessage]_vars

\* ------------------------------------------------------- functions alone
\* The runs that look at one function at a time: unit is the call (the
\* function and its arguments), out what it returned.  A run makes one call
\* from the initial state.

\* handle_workspace_symbol's rewrite on a query that is not blank.  The
\* query is put together from a directory prefix, the words of a file name
\* (joined by single spaces, an empty word giving two spaces in a row) and
\* an extension.
CallRewriteQuery ==
    /\ unit = NoUnit
    /\ \E dir \in {<<>>, <<"d", "/">>, <<"d", "\\", "e", "/">>, <<"d", "\\">>},
          n \in 0..4,
          ext \in {<<>>, <<".", "a", "l">>, <<".", "A", "L">>} :
         \E words \in [1..n -> {<<"T">>, <<"1">>, <<"C", ".">>, <<>>}] :
           LET RECURSIVE Join(_)
               Join(ws) == IF ws = <<>> THEN <<>>
                           ELSE IF Len(ws) = 1 THEN ws[1]
                           ELSE ws[1] \o <<" ">> \o Join(Tail(ws))
               q == dir \o Join(words) \o ext
           IN /\ ~IsBlankQuery(q)
              /\ unit' = [fn |-> "handle_workspace_symbol", dir |-> dir,
                          words |-> words, ext |-> ext, query |-> q]
              /\ out' = RewriteQuery(q)
    /\ UNCHANGED <<sessionVars, system, stream, wrote, got, stderrVars>>

\* _find_symbol_location on an outline of three nodes, numbered in document
\* order, in each of the five shapes three nodes can take.  A node's name is
\* one of two names in one of two spellings, alone or followed by a
\* parameter list: key says which name it is whatever the spelling.
CallFindSymbolLocation ==
    /\ unit = NoUnit
    /\ \E shape \in 1..5,
          names \in [1..3 -> {[key |-> 1, text |-> <<"F", "o">>],
                              [key |-> 1, text |-> <<"f", "O", "(", ")">>],
                              [key |-> 1, text |-> <<"f", "o", " ", "(", "B", ")">>],
                              [key |-> 2, text |-> <<"B">>]}],
          has \in [1..3 -> {{"range"}, {"selectionRange", "range"},
                            {"location", "selectionRange", "range"}}],
          wanted \in {[key |-> 1, text |-> <<"f", "o">>],
                      [key |-> 2, text |-> <<"b">>]},
          file_uri \in {"A/a.al", "x.al"} :
         LET N(i, children) == Node(i, names[i].text, has[i], children)
             symbols ==
                 CASE shape = 1 -> <<N(1, <<>>), N(2, <<>>), N(3, <<>>)>>
                   [] shape = 2 -> <<N(1, <<N(2, <<>>)>>), N(3, <<>>)>>
                   [] shape = 3 -> <<N(1, <<N(2, <<N(3, <<>>)>>)>>)>>
                   [] shape = 4 -> <<N(1, <<N(2, <<>>), N(3, <<>>)>>)>>
                   [] shape = 5 -> <<N(1, <<>>), N(2, <<N(3, <<>>)>>)>>
         IN /\ unit' = [fn |-> "_find_symbol_location", shape |-> shape,
                        names |-> names, has |-> has,
                        wanted |-> wanted.key, file_uri |-> file_uri]
            /\ out' = find_symbol_location(symbols, wanted.text, file_uri)
    /\ UNCHANGED <<sessionVars, system, stream, wrote, got, stderrVars>>

\* The directory tree of the runs on the project search: under the root "/"
\* the directory w, under it a and b, then a/c and b/d, and below c the
\* chain e, f, g, h, so that h lies six levels below w; "n" is a path that
\* does not exist.  The app.json files vary from run to run.
FileSystems ==
    {[parent |-> ("/" :> "/") @@ ("w" :> "/") @@ ("n" :> "/")
                 @@ ("a" :> "w") @@ ("b" :> "w") @@ ("c" :> "a") @@ ("d" :> "b")
                 @@ ("e" :> "c") @@ ("f" :> "e") @@ ("g" :> "f") @@ ("h" :> "g"),
      dirs |-> {"/", "w", "a", "b", "c", "d", "e", "f", "g", "h"},
      manifests |-> m] : m \in SUBSET {"/", "w", "a", "b", "c", "d", "g", "h"}}

\* find_al_project on one of the trees, from one of its paths.
CallFindAlProject ==
    /\ unit = NoUnit
    /\ \E fs \in FileSystems, start_path \in {"/", "w", "a", "f", "n"} :
         /\ unit' = [fn |-> "find_al_project", fs |-> fs, start_path |-> start_path]
         /\ \E r \in find_al_project(fs, start_path) : out' = r
    /\ UNCHANGED <<sessionVars, system, stream, wrote, got, stderrVars>>

\* find_project_for_file on one of the trees, for one of its paths.
CallFindProjectForFile ==
    /\ unit = NoUnit
    /\ \E fs \in FileSystems : \E file_path \in DOMAIN fs.parent :
         /\ unit' = [fn |-> "find_project_for_file", fs |-> fs,
                     file_path |-> file_path, calls |-> 1]
         /\ out' = find_project_for_file(fs, file_path)
    /\ UNCHANGED <<sessionVars, system, stream, wrote, got, stderrVars>>

\* find_project_for_file called once more on the same file system.
CallFindProjectForFileAgain ==
    /\ unit.fn = "find_project_for_file"
    /\ unit.calls = 1
    /\ unit' = [unit EXCEPT !.calls = 2]
    /\ out' = find_project_for_file(unit.fs, unit.file_path)
    /\ UNCHANGED <<sessionVars, system, stream, wrote, got, stderrVars>>

\* Variant of stop that has no finally block: when terminating raises, the
\* handle is left as it was.
stop_AsIs(handle, outcome) ==
    IF handle.process = "none"
    THEN [handle |-> handle, calls |-> <<>>, os |-> "none"]
    ELSE IF handle.process = "alive" /\ outcome = "raises"
    THEN [handle |-> handle, calls |-> <<"terminate">>, os |-> "alive"]
    ELSE [handle |-> [process |-> "none", initialized |-> FALSE],
          calls |-> IF handle.process = "alive" /\ outcome = "ignores"
                    THEN <<"terminate", "kill">> ELSE <<"terminate">>,
          os |-> "exited"]

\* CallHierarchyServer.stop on a handle whose process member is None
\* ("none") or a process that is running or has exited.  outcome is what a
\* running process does: it exits on terminate(), it ignores it and is
\* killed after wait(timeout=2) expired, or terminate() raises.  Returned
\* are the handle afterwards, the calls made on the process and the state
\* of the process afterwards.
stop(handle, outcome) ==
    IF handle.process = "none"
    THEN [handle |-> handle, calls |-> <<>>, os |-> "none"]
    ELSE [handle |-> [process |-> "none", initialized |-> FALSE],
          calls |-> IF handle.process = "alive" /\ outcome = "ignores"
                    THEN <<"terminate", "kill">> ELSE <<"terminate">>,
          os |-> IF handle.process = "alive" /\ outcome = "raises"
                 THEN "alive" ELSE "exited"]

\* stop() on a handle in each of its states.
CallStop ==
    /\ unit = NoUnit
    /\ \E process \in {"none", "alive", "exited"}, was_initialized \in BOOLEAN,
          outcome \in {"exits", "ignores", "raises"} :
         /\ process = "none" => ~was_initialized
         /\ unit' = [fn |-> "stop", outcome |-> outcome, calls |-> 1,
                     handle |-> [process |-> process,
                                 initialized |-> was_initialized]]
         /\ out' = <<stop([process |-> process, initialized |-> was_initialized],
                          outcome)>>
    /\ UNCHANGED <<sessionVars, system, stream, wrote, got, stderrVars>>

\* stop() called once more on the handle the first call left.
CallStopAgain ==
    /\ unit.fn = "stop"
    /\ unit.calls = 1
    /\ unit' = [unit EXCEPT !.calls = 2]
    /\ out' = Append(out, stop(out[1].handle, unit.outcome))
    /\ UNCHANGED <<sessionVars, system, stream, wrote, got, stderrVars>>

UnitSpec ==
    Init /\ [][\/ CallRewriteQuery
               \/ CallFindSymbolLocation
               \/ CallFindAlProject
               \/ CallFindProjectForFile
               \/ CallFindProjectForFileAgain
               \/ CallStop
               \/ CallStopAgain]_vars
\* ------------------------------------------------------- error streams
\* Both children are started with stderr=subprocess.PIPE.  A pipe holds a
\* bounded number of bytes; a write to a full pipe blocks the writer until
\* a reader has taken bytes out.  The runs below look at the error streams
\* alone: the proxy sends a request to a child and reads its response, the
\* children write to their error streams, and the threads that exist read
\* them.
PipeCapacity == 4       \* chunks a pipe holds before a write to it blocks

\* The thread that reads a child's stderr: CallHierarchyServer.start creates
\* one for the bridge (target _drain_stderr); ALLSPWrapper.start creates
\* none for the primary backend and nothing else reads its stderr.
stderr_thread == [primary |-> FALSE, bridge |-> TRUE]

\* send_request: the request is written and the proxy reads the child's
\* stdout until the response has come.
ProxySendRequest ==
    /\ waitingFor = "none"
    /\ \E c \in Children : waitingFor' = c
    /\ UNCHANGED <<sessionVars, system, stream, wrote, got, unit, out, errPipe,
                   blocked>>

\* A child writes a chunk to its error stream: it is taken by the pipe, or
\* the pipe is full and the child blocks in the write.
ChildWriteStderr ==
    /\ \E c \in Children :
         /\ ~blocked[c]
         /\ IF errPipe[c] < PipeCapacity
            THEN /\ errPipe' = [errPipe EXCEPT ![c] = @ + 1]
                 /\ UNCHANGED blocked
            ELSE /\ blocked' = [blocked EXCEPT ![c] = TRUE]
                 /\ UNCHANGED errPipe
    /\ UNCHANGED <<sessionVars, system, stream, wrote, got, unit, out, waitingFor>>

\* The child the proxy waits for writes its response; the read returns.
ChildRespond ==
    /\ waitingFor \in Children
    /\ ~blocked[waitingFor]
    /\ waitingFor' = "none"
    /\ UNCHANGED <<sessionVars, system, stream, wrote, got, unit, out, errPipe,
                   blocked>>

\* _drain_stderr, one turn of "for line in self.process.stderr": a chunk is
\* read from the pipe, which lets a blocked write go through.
DrainStderr ==
    /\ \E c \in Children :
         /\ stderr_thread[c]
         /\ errPipe[c] > 0
         /\ IF blocked[c]
            THEN /\ blocked' = [blocked EXCEPT ![c] = FALSE]
                 /\ UNCHANGED errPipe
            ELSE /\ errPipe' = [errPipe EXCEPT ![c] = @ - 1]
                 /\ UNCHANGED blocked
    /\ UNCHANGED <<sessionVars, system, stream, wrote, got, unit, out, waitingFor>>

StderrNext == ProxySendRequest \/ ChildWriteStderr \/ ChildRespond \/ DrainStderr

StderrSpec == Init /\ [][StderrNext]_vars

\* The thread that drains an error stream keeps running.
StderrFairSpec == StderrSpec /\ WF_vars(DrainStderr)


\* --------------------------------------------- sessions over two projects
\* Sessions in which the client works on documents of two projects: the
\* main loop reads up to MaxProjectMsgs document-context requests on
\* A/a.al and B/b.al, the handlers run as in the session model and the
\* primary backend answers every request.
MaxProjectMsgs == 3

\* main: read_client_message returned a document-context request.
ProjectRead ==
    /\ pc = "main"
    /\ nRead < MaxProjectMsgs
    /\ \E m \in DocMethods \cup {"textDocument/definition"}, u \in ProjectDocuments :
         cur' = [Request(m, u, FALSE, <<>>) EXCEPT !.id = nRead + 1]
    /\ nRead' = nRead + 1
    /\ written' = <<>>
    /\ sent' = <<>>
    /\ response' = None
    /\ ret' = None
    /\ retFor' = 0
    /\ cont' = "-"
    /\ polls' = 0
    /\ query' = <<>>
    /\ project_root' = NoRoot
    /\ symbol_name' = <<>>
    /\ fallback_location' = NoLocation
    /\ pc' = "process_request"
    /\ UNCHANGED <<request_id, wrapperVars, primaryVars, pInbox, bridgeVars,
                   faults, fixedVars, logVars>>

MultiNext ==
    \/ ProjectRead
    \/ HandleDocRequest
    \/ EnsureProjectInitialized
    \/ EnsureProjectMark
    \/ EnsureFileOpened
    \/ ForwardDocRequest
    \/ DocReturn
    \/ GotoDefinition
    \/ DefinitionReturn
    \/ FallbackHoverReturn
    \/ FallbackSymbolsReturn
    \/ DefinitionStandard
    \/ DefinitionStandardReturn
    \/ DefinitionDone
    \/ PrimaryReadResponse
    \/ WriteResponse

MultiSpec == Init /\ [][MultiNext]_vars
\* ----------------------------------------------------------- properties
\* Positions of the proxy thread inside a backend read.
Waiting == pc \in {"p_wait", "b_wait"}

\* The identifiers of the requests sent to the primary backend under method
\* while handling the current client message.
SentIds(method) ==
    {sent[i].id : i \in {j \in 1..Len(sent) : /\ sent[j].to = "primary"
                                              /\ sent[j].kind = "req"
                                              /\ sent[j].method = method}}

\* C1: for every client message that carries an identifier, the proxy loop
\* writes exactly one message with that identifier to the client before it
\* reads the next client message: for initialize, hover, documentSymbol,
\* definition, references, workspace/symbol, the call-hierarchy methods and
\* the passed-through methods, also when the backend returned no response.
C1_ExactlyOneResponse ==
    (pc = "main" /\ nRead >= 1 /\ cur.id # NoId /\ cur.method # "initialized")
        => Cardinality({i \in 1..Len(written) : written[i].id = cur.id}) = 1

\* C2: for a client message that carries no identifier, whatever its method,
\* the proxy writes nothing to the client.
C2_NothingForNotification ==
    cur.id = NoId => written = <<>>

\* C3: every response written to the client carries the identifier of the
\* client request being processed, not the identifier the proxy allocated
\* for its own request to a backend.
C3_ResponseCarriesClientId ==
    \A i \in 1..Len(written) : written[i].id = cur.id

\* An initialize response has been written under the client's identifier
\* while the proxy's own initialize request carried another one.
C3_Witness ==
    /\ pc = "main"
    /\ cur.method = "initialize"
    /\ cur.id # NoId
    /\ Len(written) = 1
    /\ written[1].tag = "result"
    /\ SentIds("initialize") # {}
    /\ cur.id \notin SentIds("initialize")

C5_BlankRequest(m) ==
    /\ m.method = "workspace/symbol"
    /\ ~m.hasQuery \/ \A i \in 1..Len(m.query) : m.query[i] = " "

\* C5: while a workspace/symbol request with a missing, empty or
\* whitespace-only query is handled, nothing is sent to a backend, the
\* project set and the open-document set stay as they are, and the request
\* is answered with the -32602 error.
C5_BlankQueryRejected ==
    [][(C5_BlankRequest(cur) /\ pc \notin {"main", "finally"})
          => /\ UNCHANGED <<sent, initialized_projects, opened_files>>
             /\ pc' = "main" => written' = <<Error(cur.id, InvalidParams)>>]_vars

\* A whitespace-only query was rejected in a session whose project root is set.
C5_Witness ==
    /\ pc = "main"
    /\ cur.method = "workspace/symbol"
    /\ cur.hasQuery
    /\ cur.query = <<" ">>
    /\ root_path = "A"
    /\ pProc = "alive"
    /\ sent = <<>>
    /\ written = <<Error(cur.id, InvalidParams)>>

\* C6: while the bridge is unavailable (never started, failed to start,
\* failed the capability negotiation), each call-hierarchy method is
\* answered with an error of code -32601.
C6_UnavailableIsMethodNotFound ==
    (/\ pc = "main"
     /\ nRead >= 1
     /\ cur.method \in CallHierarchyMethods
     /\ ~(call_hierarchy_server.present /\ call_hierarchy_server.initialized))
        => written = <<Error(cur.id, MethodNotFound)>>

\* A call-hierarchy request was answered after an initialize whose bridge
\* was started and shut down again.
C6_Witness ==
    /\ pc = "main"
    /\ cur.method = "callHierarchy/incomingCalls"
    /\ initialized
    /\ ~call_hierarchy_server.present
    /\ bProc = "exited"
    /\ written = <<Error(cur.id, MethodNotFound)>>

\* C7: after a request timed out (late holds the identifiers of the bridge
\* requests whose read timed out; a read on the primary connection has no
\* timeout) and its answer arrived late, a later request on the same
\* connection returns its own answer or nothing, never the answer to a
\* request that had timed out.
C7_NoLateAnswer ==
    [][(pc = "b_wait" /\ pc' # "b_wait" /\ ret'.kind = "resp")
          => ret'.id \notin late]_vars

\* C8: a read on a backend channel returns after a bounded wait even when
\* the backend stays alive and silent: the proxy gets back to its loop.
C8_ReadReturns ==
    Waiting ~> pc \in {"main", "finally", "stopped"}

\* C9: _ensure_project_initialized sends the initialization sequence of a
\* project at most once in a session; when it returns, it has sent either
\* nothing or that sequence, and the root it returns is the file's project.
C9_EnsureOncePerProject ==
    /\ \A r \in ProjectRoots : activations[r] <= 1
    /\ pc = "ensure_file"
         => /\ project_root = find_project_for_file(FileSystem, cur.uri)
            /\ \/ sent = <<>>
               \/ /\ activations[project_root] = 1
                  /\ sent = <<PrimaryNotif("workspace/didChangeConfiguration",
                                           project_root),
                              PrimaryNotif("textDocument/didOpen",
                                           ManifestUri(project_root)),
                              Sent("primary", "req", "al/setActiveWorkspace",
                                   retFor, project_root, <<>>)>>

\* The second call for project "A" returned its root and sent nothing.
C9_Witness ==
    /\ pc = "ensure_file"
    /\ nRead = 2
    /\ activations["A"] = 1
    /\ project_root = "A"
    /\ "A" \in initialized_projects
    /\ sent = <<>>

\* C10: when al/gotodefinition answered with an empty result and the
\* fallback found no location, handle_definition returns that response:
\* the client gets the same empty result, under its own identifier.
C10_EmptyResultKept ==
    [][(/\ pc = "definition_done"
        /\ SentIds("al/gotodefinition") # {}
        /\ SentIds("textDocument/definition") = {}
        /\ HasResult(response)
        /\ response.val \in {"null", "emptylist"}
        /\ fallback_location = NoLocation)
          => response' = Result(cur.id, response.val, response.data)]_vars

\* The whole fallback chain ran, no outline node matched the name, and the
\* response holds the original empty array.
C10_Witness ==
    /\ pc = "write"
    /\ cur.method = "textDocument/definition"
    /\ symbol_name = <<"F", "o">>
    /\ SentIds("textDocument/documentSymbol") = {retFor}
    /\ ret = Result(retFor, "list", 2)
    /\ fallback_location = NoLocation
    /\ response = Result(cur.id, "emptylist", 0)


C12_PrimaryReturnsAwaited ==
    [][/\ (pc = "p_wait" /\ pc' # "p_wait")
            => \/ ret' = None
               \/ ret'.kind = "resp" /\ ret'.id = request_id
       /\ (pc = "p_wait" /\ notified' # notified)
            => (notified' = notified + 1 /\ pc' = "p_wait" /\ ret' = ret)]_vars

\* While the first client message was handled, a notification of the
\* primary backend was handed to handle_notification and a request has
\* then returned the response with its own identifier.
C12_Witness ==
    /\ nRead = 1
    /\ notified = 1
    /\ pc \in {"doc_ret", "passthrough_ret", "initialize_ret"}
    /\ ret.kind = "resp"
    /\ ret.id = request_id
    /\ request_id >= 1

\* C13: on the bridge connection the message handed back for a
\* call-hierarchy request is the bridge's response to that very request (or
\* None): a notification, or a message with another identifier, that the
\* bridge emits while the proxy waits is not taken as the response.
C13_BridgeReturnsOwnResponse ==
    [][(pc = "b_wait" /\ cont = "call_hierarchy_ret" /\ pc' = "call_hierarchy_ret")
          => \/ ret' = None
             \/ ret'.kind = "resp" /\ ret'.id = call_hierarchy_server.request_id]_vars

\* C14: the call-hierarchy methods go to the bridge alone: no message with
\* one of these methods is written to the primary backend, and when the
\* initialized bridge answers the request the proxy sent it, the client is
\* written exactly that answer, under the client's identifier.
C14_CallHierarchyToBridge ==
    /\ \A i \in 1..Len(sent) :
         sent[i].method \in CallHierarchyMethods => sent[i].to = "bridge"
    /\ (/\ pc = "main"
        /\ cur.method \in CallHierarchyMethods
        /\ ret.kind = "resp"
        /\ ret.id = retFor)
         => written = <<[ret EXCEPT !.id = cur.id]>>

C14_Witness ==
    /\ pc = "main"
    /\ cur.method = "callHierarchy/incomingCalls"
    /\ ret.kind = "resp"
    /\ ret.id = retFor
    /\ ret.tag = "result"
    /\ ret.id # cur.id
    /\ \E i \in 1..Len(sent) :
         sent[i] = BridgeRequest("callHierarchy/incomingCalls", retFor)
    /\ written = <<[ret EXCEPT !.id = cur.id]>>

C16_FirstMatchInDocumentOrder ==
    unit.fn = "_find_symbol_location" =>
      LET hits == {i \in 1..3 : unit.names[i].key = unit.wanted}
          first == CHOOSE i \in hits : \A j \in hits : i <= j
          member == IF "location" \in unit.has[first] THEN "location"
                    ELSE IF "selectionRange" \in unit.has[first] THEN "selectionRange"
                    ELSE "range"
      IN IF hits = {} THEN out = NoLocation
         ELSE out = [member |-> member, node |-> first,
                     uri |-> IF member = "location" THEN NoUri ELSE unit.file_uri]

C16_Witness ==
    /\ unit.fn = "_find_symbol_location"
    /\ unit.shape = 2
    /\ unit.names[1].key = 2
    /\ unit.names[2].text = <<"f", "O", "(", ")">>
    /\ unit.names[3].text = <<"F", "o">>
    /\ unit.has[2] = {"selectionRange", "range"}
    /\ unit.wanted = 1
    /\ out = [member |-> "selectionRange", node |-> 2, uri |-> "A/a.al"]

\* C17: find_al_project returns a directory that holds app.json and lies at
\* the smallest depth, from 0 to 5 below the start directory, at which such
\* a directory exists, and None when there is none within that depth; the
\* root the initialize request carries to the primary backend is the
\* project found under the client's workspace root.
C17_ShallowestManifest ==
    /\ unit.fn = "find_al_project" =>
         LET fs == unit.fs
             RECURSIVE Depth(_)
             Depth(d) ==
                 IF d = unit.start_path THEN 0
                 ELSE IF fs.parent[d] = d THEN -1
                 ELSE LET k == Depth(fs.parent[d]) IN IF k < 0 THEN -1 ELSE k + 1
             found == {d \in fs.manifests : Depth(d) \in 0..5}
         IN IF unit.start_path \notin fs.dirs \/ found = {} THEN out = NoRoot
            ELSE out \in found /\ \A d \in found : Depth(out) <= Depth(d)
    /\ \A i \in 1..Len(sent) :
         (sent[i].method = "initialize" /\ sent[i].to = "primary")
           => sent[i].arg = CASE workspace_root = "W" -> "A"
                              [] workspace_root = "E" -> "E"
                              [] OTHER -> "cwd"

C17_Witness ==
    /\ unit.fn = "find_al_project"
    /\ unit.start_path = "w"
    /\ unit.fs.manifests = {"c", "h"}
    /\ out = "c"

\* C18: find_project_for_file returns the nearest directory above the file
\* that holds app.json, the filesystem root left aside, and None when there
\* is none; a second call on the same file system returns the same.
C18_NearestAncestor ==
    unit.fn = "find_project_for_file" =>
      LET fs == unit.fs
          RECURSIVE Above(_)
          Above(p) == IF fs.parent[p] = p THEN {}
                      ELSE {fs.parent[p]} \cup Above(fs.parent[p])
          found == {d \in Above(unit.file_path) \cap fs.manifests : fs.parent[d] # d}
      IN IF found = {} THEN out = NoRoot
         ELSE out \in found /\ \A d \in found \ {out} : d \in Above(out)

C18_Witness ==
    /\ unit.fn = "find_project_for_file"
    /\ unit.calls = 2
    /\ unit.file_path = "h"
    /\ unit.fs.manifests = {"/", "a", "b", "c"}
    /\ out = "c"

\* C19: nothing that goes wrong while one client message is handled ends
\* the main loop: the proxy leaves the loop for its finally block only from
\* the read of the client stream (its end, or a frame that cannot be read).
C19_LoopEndsAtClientReadOnly ==
    [][(pc' = "finally" /\ pc # "finally") => pc = "main"]_vars

\* C20: in one session the proxy writes at most one textDocument/didOpen to
\* the primary backend for any document, a project's app.json included.
C20_AnnouncedOnce == \A u \in DOMAIN didOpens : didOpens[u] <= 1

\* C21: while a hover, documentSymbol, definition or references request is
\* handled, what the proxy writes to the primary backend comes in this
\* order: the project's configuration notification, the didOpen of its
\* app.json and al/setActiveWorkspace (all three, when the project was not
\* yet initialized), then the document's didOpen, then the capability
\* requests; and once a capability request has been written for a document
\* that can be read, a didOpen of that document has been written before it.
C21_DocRequestOrder ==
    cur.method \in DocMethods \cup {"textDocument/definition"} =>
      LET ToPrimary(m) == m.to = "primary"
          s == SelectSeq(sent, ToPrimary)
          Rank(m) ==
              IF \/ m.method \in {"workspace/didChangeConfiguration",
                                  "al/setActiveWorkspace"}
                 \/ m.method = "textDocument/didOpen" /\ m.arg # cur.uri
              THEN 1
              ELSE IF m.method = "textDocument/didOpen" THEN 2
              ELSE 3
          first == {i \in 1..Len(s) : Rank(s[i]) = 1}
          asked == \E i \in 1..Len(s) : Rank(s[i]) = 3
      IN /\ \A i, j \in 1..Len(s) : i < j => Rank(s[i]) <= Rank(s[j])
         /\ first # {} =>
              /\ first = 1..3
              /\ s[1].method = "workspace/didChangeConfiguration"
              /\ s[2].method = "textDocument/didOpen"
              /\ s[2].arg = "A/app.json"
              /\ s[3].method = "al/setActiveWorkspace"
         /\ Cardinality({i \in 1..Len(s) : Rank(s[i]) = 2}) <= 1
         /\ (asked /\ cur.uri \in {"A/a.al", "A/gone.al"})
              => "A" \in initialized_projects
         /\ (asked /\ cur.uri \in {"A/a.al", "x.al"}) => didOpens[cur.uri] >= 1

C21_Witness ==
    /\ cur.method = "textDocument/references"
    /\ cur.uri = "A/a.al"
    /\ Len(sent) = 5
    /\ sent[3].method = "al/setActiveWorkspace"
    /\ sent[4] = PrimaryNotif("textDocument/didOpen", "A/a.al")
    /\ sent[5].method = "textDocument/references"
    /\ sent[5].kind = "req"
    /\ pc = "main"

\* C22: the session is marked initialized only when the primary backend's
\* initialize response has a result; what the proxy writes while it handles
\* initialize comes in the order initialize, initialized, configuration
\* notification, didOpen of app.json, al/setActiveWorkspace, readiness
\* requests, then the messages to the bridge, each of the first five at
\* most once; and when the response has no result nothing is written after
\* the initialize request.
C22_PostInitializeOrder ==
    /\ []((/\ cur.method = "initialize"
            /\ pc \notin {"finally", "finally_stop", "stopped"}
            /\ cont # "finally_stop") =>
            LET Rank(m) ==
                    CASE m.to = "bridge" -> 6
                      [] m.method = "initialize" -> 0
                      [] m.method = "initialized" -> 1
                      [] m.method = "workspace/didChangeConfiguration" -> 2
                      [] m.method = "textDocument/didOpen" -> 3
                      [] m.method = "al/setActiveWorkspace" -> 4
                      [] m.method = "al/hasProjectClosureLoadedRequest" -> 5
                      [] OTHER -> 7
            IN /\ \A i \in 1..Len(sent) : Rank(sent[i]) <= 6
               /\ \A i, j \in 1..Len(sent) :
                    i < j => /\ Rank(sent[i]) <= Rank(sent[j])
                             /\ Rank(sent[i]) <= 4 => Rank(sent[i]) < Rank(sent[j])
               /\ Len(sent) >= 2
                    => /\ initialized
                       /\ response.tag = "result"
                       /\ response.val = "obj"
               /\ (/\ pc \in {"initialize_done", "write", "main"}
                   /\ response.tag = "error" \/ response.val = "emptyobj")
                    => Len(sent) <= 1)
    /\ [][initialized' # initialized
            => (pc = "initialize_ret" /\ HasResult(ret) /\ initialized')]_vars

C22_Witness ==
    /\ cur.method = "initialize"
    /\ pc = "main"
    /\ Len(sent) = 8
    /\ sent[3] = PrimaryNotif("workspace/didChangeConfiguration", "A")
    /\ sent[4] = PrimaryNotif("textDocument/didOpen", "A/app.json")
    /\ sent[5].method = "al/setActiveWorkspace"
    /\ sent[6].method = "al/hasProjectClosureLoadedRequest"
    /\ sent[7].to = "bridge"
    /\ sent[7].method = "initialize"
    /\ initialized

\* C23: the initialize request to the bridge is written while the client's
\* initialize is handled, after the primary backend answered it with a
\* result and after the readiness wait, with nothing written to the primary
\* backend after it; and it carries the workspace root the client gave, not
\* the project found under it.
C23_BridgeInitializeRoot ==
    \A i \in 1..Len(sent) :
      (sent[i].to = "bridge" /\ sent[i].method = "initialize") =>
        /\ cur.method = "initialize"
        /\ cur.uri # NoRoot
        /\ sent[i].arg = cur.uri
        /\ initialized
        /\ response.tag = "result"
        /\ polls >= 1
        /\ \E j \in 1..(i - 1) :
             sent[j].to = "primary" /\ sent[j].method = "initialize"
        /\ \A j \in (i + 1)..Len(sent) : sent[j].to = "bridge"

C23_Witness ==
    /\ pc = "initialize_done"
    /\ root_path = "A"
    /\ \E i \in 1..Len(sent) :
         /\ sent[i] = Sent("bridge", "req", "initialize", 1, "W", <<>>)
         /\ sent[i - 1].method = "al/hasProjectClosureLoadedRequest"
    /\ call_hierarchy_server.initialized

C25_DeadBridgeIsUnavailable ==
    (/\ pc = "write"
     /\ cur.method \in CallHierarchyMethods
     /\ call_hierarchy_server.present
     /\ call_hierarchy_server.initialized
     /\ bProc = "exited"
     /\ sent = <<>>)
      => response = UnavailableResponse(cur.id)

\* C26: _ensure_project_initialized, run for a project that is not yet
\* marked, never ends the proxy's main loop, and once it has returned the
\* project is in initialized_projects, whichever of its steps failed.
C26_EnsureAlwaysMarks ==
    /\ [][(/\ pc = "ensure_project"
           /\ find_project_for_file(FileSystem, EnsureUri) # NoRoot)
            => pc' # "finally"]_vars
    /\ []((/\ pc \in {"ensure_file", "wait_load", "goto_definition", "forward"}
           /\ cur.method \in DocMethods \cup {"textDocument/definition",
                                              "workspace/symbol"}
           /\ project_root # NoRoot)
            => project_root \in initialized_projects)

\* C27: the configuration notification and al/setActiveWorkspace are sent at
\* most once per project root in a session.  A project is put into
\* initialized_projects only after both were written for it, so this says
\* that neither is written for a root that is already in the set; and the
\* set never loses a member.
C27_ActivatedOncePerRoot ==
    /\ [][\A i \in 1..Len(NewlySent) :
            NewlySent[i].method \in {"workspace/didChangeConfiguration",
                                     "al/setActiveWorkspace"}
              => NewlySent[i].arg \notin initialized_projects]_vars
    /\ [][initialized_projects \subseteq initialized_projects']_vars

\* C28: while textDocument/definition is handled, the hover request of the
\* fallback is written only right after al/gotodefinition and only when its
\* response carried a null or empty-list result; the outline request only
\* right after that hover and with a symbol name extracted from it; and a
\* non-empty result of al/gotodefinition is returned with nothing further
\* written.
C28_FallbackOnlyOnEmpty ==
    /\ [](cur.method = "textDocument/definition" =>
           \A i \in 1..Len(sent) :
              /\ (sent[i].to = "primary" /\ sent[i].method = "textDocument/hover") =>
                   /\ i > 1
                   /\ sent[i-1].method = "al/gotodefinition"
                   /\ sent[i-1].to = "primary"
                   /\ pc \in {"p_wait", "fallback_hover_ret", "fallback_symbols_ret",
                              "definition_done"}
                        => /\ response.tag = "result"
                           /\ response.val \in {"null", "emptylist"}
                   /\ pc \in {"write", "main"}
                        => /\ response.tag = "result"
                           /\ response.val \in {"null", "emptylist", "location"}
              /\ (sent[i].to = "primary"
                  /\ sent[i].method = "textDocument/documentSymbol") =>
                   /\ i > 1
                   /\ sent[i-1].method = "textDocument/hover"
                   /\ sent[i-1].to = "primary"
                   /\ symbol_name # <<>>)
    /\ [][(/\ pc = "definition_ret"
           /\ HasResult(ret)
           /\ ret.val \notin {"null", "emptylist"})
            => /\ pc' = "definition_done"
               /\ sent' = sent
               /\ response' = ret]_vars
    /\ [][(/\ pc = "definition_done"
           /\ sent # <<>>
           /\ sent[Len(sent)].method = "al/gotodefinition"
           /\ response.tag = "result")
            => response' = AnnotateId(response, cur.id)]_vars

C28_Witness ==
    /\ cur.method = "textDocument/definition"
    /\ pc = "write"
    /\ Len(sent) >= 3
    /\ sent[Len(sent) - 2].method = "al/gotodefinition"
    /\ sent[Len(sent) - 1].method = "textDocument/hover"
    /\ sent[Len(sent)].method = "textDocument/documentSymbol"
    /\ symbol_name # <<>>
    /\ response.tag = "result"
    /\ response.val = "location"

\* C29: when the outline holds a node whose whole name equals the wanted
\* name without regard to case and, earlier in document order, a node that
\* matches it only after its parameter list is stripped, the location
\* returned is that of a node whose whole name matches.
C29_ExactMatchPreferred ==
    (/\ unit.fn = "_find_symbol_location"
     /\ unit.wanted = 1
     /\ \E i, j \in 1..3 :
          /\ i < j
          /\ unit.names[i].key = 1
          /\ Lower(unit.names[i].text) # <<"f", "o">>
          /\ Lower(unit.names[j].text) = <<"f", "o">>)
      => /\ out # NoLocation
         /\ Lower(unit.names[out.node].text) = <<"f", "o">>

\* C30: while workspace/symbol is handled, the standard workspace/symbol
\* request is written right after a readiness request and al/symbolSearch
\* right after the standard request, both with the rewritten query;
\* al/symbolSearch is written only when the standard response is not a
\* non-empty list, which is otherwise returned; a handler that returns for a
\* non-blank query has sent the standard request, and the wait that ends by
\* timeout goes on to it.
C30_SearchOrder ==
    /\ [](cur.method = "workspace/symbol" =>
           LET ToPrimary(m) == m.to = "primary"
               s == SelectSeq(sent, ToPrimary)
           IN /\ \A i \in 1..Len(s) :
                   /\ s[i].method = "workspace/symbol" =>
                        /\ i > 1
                        /\ s[i-1].method = "al/hasProjectClosureLoadedRequest"
                        /\ s[i].kind = "req"
                        /\ s[i].query = query
                   /\ s[i].method = "al/symbolSearch" =>
                        /\ i > 1
                        /\ s[i-1].method = "workspace/symbol"
                        /\ s[i].kind = "req"
                        /\ s[i].query = query
              /\ (pc \in {"symbol_done", "write"} /\ ~IsBlankQuery(QueryOf(cur))) =>
                   \E i \in 1..Len(s) : s[i].method = "workspace/symbol")
    /\ [][pc = "symbol_ret" =>
            IF ret.kind = "resp" /\ ret.tag = "result" /\ ret.val = "list"
            THEN sent' = sent /\ response' = ret /\ pc' = "symbol_done"
            ELSE PrimaryWritable =>
                   /\ Len(sent') = Len(sent) + 1
                   /\ sent'[Len(sent')].method = "al/symbolSearch"]_vars
    /\ [][(pc = "wait_load" /\ cur.method = "workspace/symbol" /\ polls = MaxPolls)
            => pc' = "symbol_search"]_vars
    /\ [][(pc = "symbol_search" /\ PrimaryWritable)
            => /\ Len(sent') = Len(sent) + 1
               /\ sent'[Len(sent')].method = "workspace/symbol"]_vars

C30_Witness ==
    /\ cur.method = "workspace/symbol"
    /\ pc = "p_wait"
    /\ cont = "symbol_ret"
    /\ polls = MaxPolls
    /\ ret.kind = "resp"
    /\ ~ProjectLoaded(ret)
    /\ Len(sent) >= MaxPolls + 1
    /\ \A i \in 1..MaxPolls :
         sent[Len(sent) - i].method = "al/hasProjectClosureLoadedRequest"
    /\ sent[Len(sent)].method = "workspace/symbol"
    /\ sent[Len(sent)].query = query

\* C31: a readiness check that fails (no response, or a response without a
\* result) ends _wait_for_project_load: a further readiness request is
\* written only when the check before it was answered with a result.
C31_FailedCheckEndsWait ==
    (/\ pc = "p_wait"
     /\ cont = "check_ret"
     /\ polls >= 2)
      => HasResult(ret)

\* C32: every stream content of ClosingFrames makes read_client_message
\* return None; once it has, the proxy is in its finally block and nowhere
\* else, it asks a live bridge it holds to shut down, and when it has
\* stopped the primary backend has been terminated and the bridge it held
\* is not running and not initialized.
C32_PeerClosedCleansUp ==
    /\ []((pc = "finally" /\ nRead = 0 /\ cur.closing = "eof") =>
            \A k \in DOMAIN ClosingFrames :
               read_client_message(ClosingFrames[k]).msg = NoMessage)
    /\ [](cur.closing # "-" =>
            /\ pc \in {"finally", "b_wait", "finally_stop", "stopped"}
            /\ pc = "b_wait" => cont = "finally_stop")
    /\ [](pc = "stopped" =>
            /\ pProc = "exited"
            /\ bProc # "alive"
            /\ orphans = 0
            /\ ~call_hierarchy_server.initialized)
    /\ [][(pc = "finally" /\ call_hierarchy_server.present /\ bProc = "alive")
            => /\ pc' = "b_wait"
               /\ sent'[Len(sent')].to = "bridge"
               /\ sent'[Len(sent')].method = "shutdown"]_vars
    /\ [][cur.closing # "-" => (written' = written /\ nRead' = nRead)]_vars

C32_Witness ==
    /\ pc = "stopped"
    /\ cur.closing = "malformed"
    /\ call_hierarchy_server.present
    /\ bProc = "exited"
    /\ pProc = "exited"
    /\ sent # <<>>
    /\ sent[Len(sent)].method = "shutdown"
    /\ faults = 0

\* C33: the first stop() leaves the handle with no process and not
\* initialized whatever the process does; it calls terminate() on the
\* process it held, and kill() as well on one that is still running after
\* the wait, which then has exited; a second stop() makes no call on any
\* process and leaves the handle as the first left it.
C33_StopIdempotent ==
    unit.fn = "stop" =>
      /\ out[1].handle = [process |-> "none", initialized |-> FALSE]
      /\ unit.handle.process = "none" =>
           (out[1].calls = <<>> /\ out[1].handle = unit.handle)
      /\ unit.handle.process # "none" => out[1].calls[1] = "terminate"
      /\ (unit.handle.process = "alive" /\ unit.outcome = "ignores") =>
           (out[1].calls = <<"terminate", "kill">> /\ out[1].os = "exited")
      /\ (unit.handle.process = "alive" /\ unit.outcome = "exits") =>
           (out[1].calls = <<"terminate">> /\ out[1].os = "exited")
      /\ unit.calls = 2 =>
           /\ Len(out) = 2
           /\ out[2].handle = out[1].handle
           /\ out[2].calls = <<>>

C33_Witness ==
    /\ unit.fn = "stop"
    /\ unit.calls = 2
    /\ unit.handle = [process |-> "alive", initialized |-> TRUE]
    /\ unit.outcome = "raises"
    /\ out[1].handle = [process |-> "none", initialized |-> FALSE]
    /\ out[2].calls = <<>>

\* C34: a child that has blocked in a write to its full error stream while
\* the proxy waits for its response gets out of the write again, the
\* primary backend as well as the bridge.
C34_StderrDrained ==
    /\ (waitingFor = "primary" /\ blocked["primary"]) ~> ~blocked["primary"]
    /\ (waitingFor = "bridge" /\ blocked["bridge"]) ~> ~blocked["bridge"]

\* C35: a message whose method no branch of process_request names is, with
\* an identifier, written to the primary backend as one request of that
\* method, and what the client gets is the backend's response under the
\* client's identifier, or a null result when send_request returned nothing;
\* without an identifier it is written as one notification of that method,
\* no backend message is waited for and nothing is written to the client.
C35_Passthrough ==
    /\ [](cur.method \in OtherMethods =>
            /\ (pc \in {"write", "main"} /\ cur.id # NoId) =>
                 /\ sent = <<Sent("primary", "req", cur.method, request_id, "-",
                                  <<>>)>>
                 /\ response.kind = "resp"
                 /\ response.id = cur.id
            /\ (pc \in {"write", "main"} /\ cur.id = NoId) =>
                 /\ sent = <<Sent("primary", "notif", cur.method, NoId, "-", <<>>)>>
                 /\ response = None
            /\ cur.id = NoId => pc \notin {"p_wait", "passthrough_ret"}
            /\ pc = "main" =>
                 written = IF cur.id # NoId THEN <<response>> ELSE <<>>)
    /\ [][pc = "passthrough_ret" =>
            /\ pc' = "write"
            /\ ret.kind = "resp" => response' = [ret EXCEPT !.id = cur.id]
            /\ ret.kind = "none" => response' = [kind |-> "resp", id |-> cur.id,
                                                 tag |-> "result", val |-> "null",
                                                 code |-> 0, data |-> 0]]_vars

C35_Witness ==
    /\ cur.method \in OtherMethods
    /\ cur.id # NoId
    /\ pc = "main"
    /\ pProc = "alive"
    /\ ret.kind = "none"
    /\ Len(sent) = 1
    /\ sent[1].kind = "req"
    /\ written = <<Result(cur.id, "null", 0)>>

\* C36: once more than one project is initialized, whenever a
\* document-context request has just been forwarded to the primary backend,
\* the root named by the most recent al/setActiveWorkspace request is the
\* project that owns the request's document.
C36_ActiveWorkspaceOwnsDocument ==
    (/\ Cardinality(initialized_projects) > 1
     /\ pc = "p_wait"
     /\ cont \in {"doc_ret", "definition_ret", "definition_std_ret"})
    => active_workspace = find_project_for_file(FileSystem, cur.uri)

\* C37: in a session whose first client message is initialize and whose
\* second is the client's own initialized notification, the primary
\* backend has been written at most one initialized notification.
C37_InitializedAtMostOnce ==
    (nRead = 2 /\ cur.method = "initialized" /\ initialized)
    => initialized_sent <= 1

\* C38: every workspace/symbol and al/symbolSearch request written to the
\* primary backend carries a query that is not empty.
C38_SearchQueryNonEmpty ==
    \A i \in 1..Len(sent) :
        (/\ sent[i].to = "primary"
         /\ sent[i].method \in {"workspace/symbol", "al/symbolSearch"})
        => sent[i].query # <<>>

\* C39: at any time at most one bridge process has been started by the
\* proxy and not yet stopped: the one the handle holds while it runs,
\* together with those whose handle was overwritten while they ran.
C39_AtMostOneBridge ==
    orphans + (IF bProc = "alive" THEN 1 ELSE 0) <= 1

====
